---- MODULE Spec2Model ----
(***************************************************************************)
(* A model of inngest-ctl: the command router (cli.ts), the client/config  *)
(* and request helper (lib/client.ts), the domain operations               *)
(* (lib/events.ts, lib/runs.ts, lib/cancel.ts) and the output formatter    *)
(* (lib/output.ts).                                                        *)
(*                                                                         *)
(* One process invocation is one behaviour: Init chooses the argument      *)
(* vector, Main/Handle* route it, the domain operation reads the           *)
(* environment and issues its fetch, the server (or the network) settles   *)
(* it, and the continuation prints the result or the error and exits.      *)
(*                                                                         *)
(* Strings are opaque to TLC, so text the code takes apart is modelled     *)
(* structurally: an argument token is a record saying whether it starts    *)
(* with "--", its key, whether it holds "=" and the value after it; a      *)
(* cancellation time is a sequence of characters; JSON text is parsed by   *)
(* a table over the texts the model uses.                                  *)
(***************************************************************************)
EXTENDS Integers, Sequences, FiniteSets, TLC

VARIABLES
    pc,         \* where the process is: "main", a handler, an operation, "fetch", "write", "exited"
    argv,       \* process.argv.slice(2), a sequence of tokens
    flags,      \* GlobalFlags parsed by parseGlobalFlags
    positional, \* the positional tokens left by parseGlobalFlags
    call,       \* the options of the domain operation the handler called
    env,        \* process.env as read by createClient / getDevUrl
    requests,   \* every fetch() issued, in order
    response,   \* the settled fetch: a response, a network error, or NoResponse
    thrown,     \* the error caught by main's catch, or NoError
    stdout,     \* console.log lines
    stderr,     \* console.error lines
    exitCode,   \* the process exit code, -1 while running
    fileReads,  \* the calls of readDataFile: the path, and what was found there
    files,      \* Bun.write: the pending write, and what reached the disk
    tin,        \* input of the function under test (pure-function specifications)
    tout        \* its result

vars == <<pc, argv, flags, positional, call, env, requests, response, thrown,
          stdout, stderr, exitCode, fileReads, files, tin, tout>>

----------------------------------------------------------------------------
(* JavaScript values *)

\* `undefined` where a string is expected (an unset variable, a missing flag).
Undefined == "<undefined>"

\* JavaScript truthiness of a string-or-undefined value.
Truthy(s) == s # Undefined /\ s # ""

\* JSON values.
JNull == [t |-> "null"]
JUndef == [t |-> "undefined"]
JStr(s) == [t |-> "string", s |-> s]
JNum(n) == [t |-> "number", n |-> n]
JArr(a) == [t |-> "array", a |-> a]
JObj(o) == [t |-> "object", o |-> o]

\* obj.key on a JSON value that is an object (undefined when the key is absent).
Get(v, key) ==
    IF v.t = "object" /\ key \in DOMAIN v.o THEN v.o[key] ELSE JUndef

\* JavaScript truthiness of a JSON value.
JTruthy(v) ==
    CASE v.t \in {"null", "undefined"} -> FALSE
      [] v.t = "string" -> v.s # ""
      [] v.t = "number" -> v.n # 0
      [] OTHER -> TRUE

\* Reading a property of null or undefined throws a TypeError.
Nullish(v) == v.t \in {"null", "undefined"}

\* String(v) as a template literal interpolates it.
ToStr(v) ==
    CASE v.t = "string" -> v.s
      [] v.t = "number" -> ToString(v.n)
      [] v.t = "null" -> "null"
      [] v.t = "undefined" -> "undefined"
      [] v.t = "array" -> "<array>"
      [] OTHER -> "[object Object]"

\* JSON.stringify(v), given as the value its text parses to: a property whose
\* value is undefined is left out, an undefined array element becomes null.
RECURSIVE Stringify(_)
Stringify(v) ==
    CASE v.t = "object" ->
            JObj([k \in {j \in DOMAIN v.o : v.o[j] # JUndef} |-> Stringify(v.o[k])])
      [] v.t = "array" ->
            JArr([i \in 1..Len(v.a) |->
                    IF v.a[i] = JUndef THEN JNull ELSE Stringify(v.a[i])])
      [] OTHER -> v

(* Errors: the constructor name and the message, a sequence of text parts. *)
Err(name, parts) == [name |-> name, message |-> parts]
NoError == [name |-> "", message |-> <<>>]

SyntaxError == [t |-> "SyntaxError"]

----------------------------------------------------------------------------
(* Argument tokens *)

\* A token that does not start with "--": its text is w.
Word(w) == [dd |-> FALSE, key |-> w, eq |-> FALSE, val |-> ""]
\* "--k", with no "=" in it.
Flag(k) == [dd |-> TRUE, key |-> k, eq |-> FALSE, val |-> ""]
\* "--k=v": k is the text between "--" and the first "=".
FlagEq(k, v) == [dd |-> TRUE, key |-> k, eq |-> TRUE, val |-> v]

\* The token's text.
Text(tok) ==
    IF tok.dd
    THEN "--" \o tok.key \o (IF tok.eq THEN "=" \o tok.val ELSE "")
    ELSE tok.key

\* parseInt(s, 10), the Number written in decimal ("NaN" when no digits lead s).
ParseInt10(s) ==
    CASE s \in {"9000", "09000", "9000x"} -> "9000"
      [] s \in {"0", "00"} -> "0"
      [] s \in {"10", "10.5"} -> "10"
      [] OTHER -> "NaN"


GlobalFlagsInit == [pretty |-> FALSE, dev |-> FALSE, port |-> Undefined, output |-> Undefined]

RECURSIVE parseGlobalFlagsFrom(_, _, _, _)
parseGlobalFlagsFrom(args, i, f, pos) ==
    IF i > Len(args) THEN [flags |-> f, positional |-> pos]
    ELSE LET arg == args[i] IN
         IF arg = Flag("pretty")
           THEN parseGlobalFlagsFrom(args, i + 1, [f EXCEPT !.pretty = TRUE], pos)
         ELSE IF arg = Flag("dev")
           THEN parseGlobalFlagsFrom(args, i + 1, [f EXCEPT !.dev = TRUE], pos)
         ELSE IF arg = Flag("port") /\ i + 1 <= Len(args)
           THEN parseGlobalFlagsFrom(args, i + 2,
                    [f EXCEPT !.port = ParseInt10(Text(args[i + 1]))], pos)
         ELSE IF arg.dd /\ arg.eq /\ arg.key = "port"
           THEN parseGlobalFlagsFrom(args, i + 1,
                    [f EXCEPT !.port = ParseInt10(arg.val)], pos)
         ELSE IF arg = Flag("output") /\ i + 1 <= Len(args)
           THEN parseGlobalFlagsFrom(args, i + 2,
                    [f EXCEPT !.output = Text(args[i + 1])], pos)
         ELSE IF arg.dd /\ arg.eq /\ arg.key = "output"
           THEN parseGlobalFlagsFrom(args, i + 1, [f EXCEPT !.output = arg.val], pos)
         ELSE parseGlobalFlagsFrom(args, i + 1, f, Append(pos, arg))

parseGlobalFlags(args) == parseGlobalFlagsFrom(args, 1, GlobalFlagsInit, <<>>)

\* result[key] = value, on a Record<string, string> held as a function.
SetKey(r, k, v) == [x \in DOMAIN r \cup {k} |-> IF x = k THEN v ELSE r[x]]

RECURSIVE parseNamedArgsFrom(_, _, _)
parseNamedArgsFrom(args, i, result) ==
    IF i > Len(args) THEN result
    ELSE LET arg == args[i] IN
         IF arg.dd
         THEN IF arg.eq
              THEN parseNamedArgsFrom(args, i + 1, SetKey(result, arg.key, arg.val))
              ELSE IF i + 1 <= Len(args) /\ ~args[i + 1].dd
                   THEN parseNamedArgsFrom(args, i + 2,
                            SetKey(result, arg.key, Text(args[i + 1])))
                   ELSE parseNamedArgsFrom(args, i + 1, result)
         ELSE parseNamedArgsFrom(args, i + 1, result)

\* A parser that knows the form --key=value alone.
parseNamedArgsEqualsOnly(args) ==
    parseNamedArgsFrom([i \in 1..Len(args) |->
                           IF args[i].dd /\ ~args[i].eq THEN Word(args[i].key) ELSE args[i]],
                       1, <<>>)

parseNamedArgs(args) == parseNamedArgsFrom(args, 1, <<>>)

\* parsed["key"]: undefined when the key was never set.
Named(parsed, key) == IF key \in DOMAIN parsed THEN parsed[key] ELSE Undefined

\* args.slice(1)
Rest(args) == IF Len(args) = 0 THEN <<>> ELSE Tail(args)

\* subArgs[0] as a string, undefined when there is none.
First(args) == IF Len(args) = 0 THEN Undefined ELSE Text(args[1])

----------------------------------------------------------------------------
(* lib/client.ts *)

PROD_API_URL == "https://api.inngest.com"
DEFAULT_DEV_PORT == 8288
EVENT_GATEWAY_URL == "https://inn.gs"

DevHost == "http://dev:9000"

\* envUrl.replace(/\/$/, ""): one trailing slash is removed.
StripTrailingSlash(url) ==
    CASE url = DevHost \o "/" -> DevHost
      [] url = DevHost \o "//" -> DevHost \o "/"
      [] url = "/" -> ""
      [] OTHER -> url

\* The flag first, then the environment override, then the default.
getDevUrlPortFirst(port, e) ==
    IF port # Undefined THEN "http://localhost:" \o port
    ELSE IF Truthy(e.devUrl) THEN StripTrailingSlash(e.devUrl)
    ELSE "http://localhost:" \o ToString(DEFAULT_DEV_PORT)

\* The environment override first, then the flag, then the default.
getDevUrl(port, e) ==
    IF Truthy(e.devUrl)
    THEN StripTrailingSlash(e.devUrl)
    ELSE "http://localhost:" \o (IF port # Undefined THEN port ELSE ToString(DEFAULT_DEV_PORT))

createClient(options, e) ==
    [baseUrl    |-> IF options.dev THEN getDevUrl(options.port, e) ELSE PROD_API_URL,
     signingKey |-> e.signingKey,
     eventKey   |-> e.eventKey,
     dev        |-> options.dev]

getEventGatewayUrl(eventKey, options, e) ==
    IF options.dev
    THEN getDevUrl(options.port, e) \o "/e/" \o eventKey
    ELSE EVENT_GATEWAY_URL \o "/e/" \o eventKey

SigningKeyMessage == <<"INNGEST_SIGNING_KEY environment variable is required for API requests">>
EventKeyMessage == <<"INNGEST_EVENT_KEY environment variable is required for sending events">>

\* The check of the key made in dev mode too.
apiRequestNeedsKeyInDev(client) == ~Truthy(client.signingKey)

\* apiRequest with no check of the key.
apiRequestNeverNeedsKey(client) == FALSE

\* apiRequest's check before it builds the request.
apiRequestNeedsKey(client) == ~client.dev /\ ~Truthy(client.signingKey)

ContentType == [h \in {"Content-Type"} |-> "application/json"]

apiRequestHeaders(client) ==
    IF Truthy(client.signingKey)
    THEN [h \in {"Content-Type", "Authorization"} |->
            IF h = "Authorization" THEN "Bearer " \o client.signingKey
            ELSE "application/json"]
    ELSE ContentType

\* The absent request body.
NoBody == JUndef

\* The fetch() apiRequest issues: body ? JSON.stringify(body) : undefined.
apiRequestFetch(client, method, path, body) ==
    [by      |-> "apiRequest",
     method  |-> method,
     url     |-> client.baseUrl \o path,
     headers |-> apiRequestHeaders(client),
     body    |-> IF JTruthy(body) THEN body ELSE NoBody]

validateEventKey(eventKey) == Truthy(eventKey)

----------------------------------------------------------------------------
(* JSON texts: the event data given on the command line or in the data     *)
(* file, and the bodies the server answers with.                           *)

EventData == JObj([userId |-> JStr("123")])

\* A RawEvent of the server, in each spelling of its fields.
RawEvent(form) ==
    CASE form = "snake" ->
            JObj([id |-> JStr("evt-1"), name |-> JStr("user.signup"),
                  received_at |-> JStr("2024-01-01T10:00:00Z"), data |-> EventData])
      [] form = "camel" ->
            JObj([id |-> JStr("evt-1"), name |-> JStr("user.signup"),
                  receivedAt |-> JStr("2024-01-01T10:00:00Z"), data |-> EventData])
      [] form = "ts" ->
            JObj([id |-> JStr("evt-2"), name |-> JStr("order.created"), ts |-> JNum(5)])

\* A RawRun / RawEventRun of the server: completed, still running, camel-cased.
RawRun(form) ==
    CASE form = "completed" ->
            JObj([run_id |-> JStr("run-1"), status |-> JStr("Completed"),
                  function_id |-> JStr("app-fn"), function_version |-> JNum(1),
                  event_id |-> JStr("evt-1"),
                  run_started_at |-> JStr("2024-01-01T10:00:00Z"),
                  started_at |-> JStr("2024-01-01T10:00:00Z"),
                  ended_at |-> JStr("2024-01-01T10:01:00Z"),
                  output |-> JObj([success |-> JStr("yes")])])
      [] form = "running" ->
            JObj([run_id |-> JStr("run-2"), status |-> JStr("Running"),
                  function_id |-> JStr("app-fn"),
                  run_started_at |-> JStr("2024-01-01T10:00:00Z"),
                  started_at |-> JStr("2024-01-01T10:00:00Z"), ended_at |-> JNull])
      [] form = "camel" ->
            JObj([runId |-> JStr("run-1"), status |-> JStr("Completed"),
                  functionId |-> JStr("app-fn"), functionVersion |-> JNum(1),
                  eventId |-> JStr("evt-1"),
                  runStartedAt |-> JStr("2024-01-01T10:00:00Z"),
                  startedAt |-> JStr("2024-01-01T10:00:00Z"),
                  endedAt |-> JStr("2024-01-01T10:01:00Z"),
                  output |-> JObj([success |-> JStr("yes")])])

\* A RawJob of the server.
RawJob(form) ==
    CASE form = "snake" ->
            JObj([job_id |-> JStr("job-1"), step_id |-> JStr("step-init"),
                  status |-> JStr("Completed"),
                  started_at |-> JStr("2024-01-01T10:00:00Z"),
                  ended_at |-> JStr("2024-01-01T10:00:01Z")])
      [] form = "camel" ->
            JObj([jobId |-> JStr("job-1"), stepId |-> JStr("step-init"),
                  status |-> JStr("Completed"),
                  startedAt |-> JStr("2024-01-01T10:00:00Z"),
                  endedAt |-> JStr("2024-01-01T10:00:01Z")])

\* JSON.parse(text) / response.json(): the value, or SyntaxError.
JsonParse(text) ==
    CASE text = "{}" -> JObj(<<>>)
      [] text = "null" -> JNull
      [] text = "[]" -> JArr(<<>>)
      [] text = "{\"userId\":\"123\"}" -> EventData
      [] text = "{\"error\":\"boom\"}" -> JObj([error |-> JStr("boom")])
      [] text = "{\"error\":\"\"}" -> JObj([error |-> JStr("")])
      [] text = "{\"error\":5}" -> JObj([error |-> JNum(5)])
      [] text = "{\"message\":\"nope\"}" -> JObj([message |-> JStr("nope")])
      [] text = "{\"ids\":[\"evt-new\"],\"status\":200}" ->
            JObj([ids |-> JArr(<<JStr("evt-new")>>), status |-> JNum(200)])
      [] text = "{\"data\":null}" -> JObj([data |-> JNull])
      [] text = "{\"data\":[]}" -> JObj([data |-> JArr(<<>>)])
      [] text = "{\"data\":<event>}" -> JObj([data |-> RawEvent("snake")])
      [] text = "{\"data\":<eventCamel>}" -> JObj([data |-> RawEvent("camel")])
      [] text = "{\"data\":[<event>,<eventTs>],\"metadata\":{\"fetched_at\":\"2024-01-02T00:00:00Z\"}}" ->
            JObj([data |-> JArr(<<RawEvent("snake"), RawEvent("ts")>>),
                  metadata |-> JObj([fetched_at |-> JStr("2024-01-02T00:00:00Z")])])
      [] text = "{\"data\":<runCompleted>}" -> JObj([data |-> RawRun("completed")])
      [] text = "{\"data\":<runRunning>}" -> JObj([data |-> RawRun("running")])
      [] text = "{\"data\":<runCamel>}" -> JObj([data |-> RawRun("camel")])
      [] text = "{\"data\":[<runCompleted>,<runRunning>]}" ->
            JObj([data |-> JArr(<<RawRun("completed"), RawRun("running")>>)])
      [] text = "{\"data\":[<runCamel>]}" -> JObj([data |-> JArr(<<RawRun("camel")>>)])
      [] text = "{\"data\":[<job>,<jobCamel>]}" ->
            JObj([data |-> JArr(<<RawJob("snake"), RawJob("camel")>>)])
      [] text = "{\"cancelled\":3}" -> JObj([cancelled |-> JNum(3)])
      [] OTHER -> SyntaxError

(* A settled fetch *)
NoResponse == [kind |-> "none", status |-> 0, body |-> ""]
NetworkError == [kind |-> "rejected", status |-> 0, body |-> ""]
Resp(status, body) == [kind |-> "response", status |-> status, body |-> body]

\* response.ok
Ok(resp) == resp.status >= 200 /\ resp.status <= 299

(* What a step of the code yields: a value, or a thrown error. *)
Returned(v) == [ok |-> TRUE, value |-> v, error |-> NoError]
Thrown(e) == [ok |-> FALSE, value |-> JUndef, error |-> e]

FetchFailed == Err("Error", <<"Unable to connect. Is the computer able to access the url?">>)
TypeErrorOf(expr) ==
    Err("TypeError", <<"null or undefined is not an object (evaluating '", expr, "')">>)
JsonSyntaxError == Err("SyntaxError", <<"Failed to parse JSON">>)

\* The raw body, whatever it holds.
apiErrorMessageRaw(errorBody) == errorBody

\* parsed.error || errorBody, inside the try whose catch falls back to errorBody.
apiErrorMessage(errorBody) ==
    LET parsed == JsonParse(errorBody) IN
    IF parsed = SyntaxError \/ Nullish(parsed) THEN errorBody
    ELSE IF JTruthy(Get(parsed, "error")) THEN ToStr(Get(parsed, "error"))
    ELSE errorBody

\* apiRequest after the await: the parsed body, or the error it throws.
apiRequestSettle(resp) ==
    IF resp.kind = "rejected" THEN Thrown(FetchFailed)
    ELSE IF ~Ok(resp)
    THEN Thrown(Err("Error", <<"API request failed (", ToString(resp.status), "): ",
                               apiErrorMessage(resp.body)>>))
    ELSE IF JsonParse(resp.body) = SyntaxError THEN Thrown(JsonSyntaxError)
    ELSE Returned(JsonParse(resp.body))

----------------------------------------------------------------------------
(* lib/events.ts and lib/runs.ts: what each operation makes of the response *)

\* a || b on JSON values.
JOr(a, b) == IF JTruthy(a) THEN a ELSE b

\* raw.map(f), once raw is known to be an array of objects.
MapArr(arr, F(_)) == JArr([i \in 1..Len(arr.a) |-> F(arr.a[i])])

\* event.received_at || event.receivedAt || new Date(event.ts || 0).toISOString()
ReceivedAt(event) ==
    LET ms == IF JTruthy(Get(event, "ts")) THEN Get(event, "ts").n ELSE 0
        iso == IF ms = 0 THEN "1970-01-01T00:00:00.000Z"
               ELSE "1970-01-01T00:00:00.00" \o ToString(ms) \o "Z"
    IN  JOr(Get(event, "received_at"), JOr(Get(event, "receivedAt"), JStr(iso)))

NormalEvent(event) ==
    JObj([id         |-> Get(event, "id"),
          name       |-> Get(event, "name"),
          receivedAt |-> ReceivedAt(event),
          data       |-> Get(event, "data"),
          user       |-> Get(event, "user")])

normalizeEventList(raw) == MapArr(raw, NormalEvent)

NormalEventRun(run) ==
    JObj([runId           |-> JOr(Get(run, "run_id"), JOr(Get(run, "runId"), JStr(""))),
          status          |-> Get(run, "status"),
          functionId      |-> JOr(Get(run, "function_id"), JOr(Get(run, "functionId"), JStr(""))),
          functionVersion |-> JOr(Get(run, "function_version"), Get(run, "functionVersion")),
          startedAt       |-> JOr(Get(run, "started_at"), Get(run, "startedAt")),
          endedAt         |-> JOr(Get(run, "ended_at"), Get(run, "endedAt")),
          output          |-> Get(run, "output")])

\* The runs in the opposite order.
normalizeEventRunsReversed(raw) ==
    JArr([i \in 1..Len(raw.a) |-> NormalEventRun(raw.a[Len(raw.a) + 1 - i])])

normalizeEventRuns(raw) == MapArr(raw, NormalEventRun)

NormalJob(job) ==
    JObj([jobId     |-> JOr(Get(job, "job_id"), JOr(Get(job, "jobId"), JStr(""))),
          stepId    |-> JOr(Get(job, "step_id"), JOr(Get(job, "stepId"), JStr(""))),
          status    |-> Get(job, "status"),
          startedAt |-> JOr(Get(job, "started_at"), Get(job, "startedAt")),
          endedAt   |-> JOr(Get(job, "ended_at"), Get(job, "endedAt")),
          output    |-> Get(job, "output"),
          error     |-> Get(job, "error")])

normalizeJobs(raw) == MapArr(raw, NormalJob)

\* sendEvent after its fetch settles.
sendEventSettle(resp) ==
    IF resp.kind = "rejected" THEN Thrown(FetchFailed)
    ELSE IF ~Ok(resp)
    THEN Thrown(Err("Error", <<"Failed to send event (", ToString(resp.status), "): ", resp.body>>))
    ELSE LET result == JsonParse(resp.body) IN
         IF result = SyntaxError THEN Thrown(JsonSyntaxError)
         ELSE IF Nullish(result) THEN Thrown(TypeErrorOf("result.ids"))
         ELSE Returned(JObj([ids    |-> JOr(Get(result, "ids"), JArr(<<>>)),
                             status |-> JNum(resp.status)]))

\* getEvent after apiRequest has returned or thrown.
getEventReturn(r) ==
    IF ~r.ok THEN r
    ELSE IF Nullish(r.value) THEN Thrown(TypeErrorOf("response.data"))
    ELSE LET raw == Get(r.value, "data") IN
         IF Nullish(raw) THEN Thrown(TypeErrorOf("raw.id"))
         ELSE Returned(NormalEvent(raw))

getEventSettle(eventId, resp) == getEventReturn(apiRequestSettle(resp))

\* response.data || [], then the map over it, which throws when raw is no array or
\* an element of it is null.
ListOf(r, normalize(_), expr) ==
    IF ~r.ok THEN r
    ELSE IF Nullish(r.value) THEN Thrown(TypeErrorOf("response.data"))
    ELSE LET raw == JOr(Get(r.value, "data"), JArr(<<>>)) IN
         IF raw.t # "array" \/ \E i \in 1..Len(raw.a) : Nullish(raw.a[i])
         THEN Thrown(TypeErrorOf(expr))
         ELSE Returned(normalize(raw))

getEventRunsSettle(eventId, resp) ==
    ListOf(apiRequestSettle(resp), normalizeEventRuns, "raw.map")

\* response.metadata?.fetched_at || new Date().toISOString()
FetchedAt(v) ==
    IF Nullish(Get(v, "metadata")) THEN JStr("<now>")
    ELSE JOr(Get(Get(v, "metadata"), "fetched_at"), JStr("<now>"))

\* response.data?.length
DataLength(v) ==
    IF Get(v, "data").t = "array" THEN JNum(Len(Get(v, "data").a))
    ELSE IF Get(v, "data").t = "string" THEN JNum(Len(Get(v, "data").s))
    ELSE JUndef

listEventsSettle(resp) ==
    LET r == ListOf(apiRequestSettle(resp), normalizeEventList, "raw.map") IN
    IF ~r.ok THEN r
    ELSE LET v == apiRequestSettle(resp).value IN
         Returned(JObj([events |-> r.value,
                        meta   |-> JObj([fetchedAt |-> FetchedAt(v), total |-> DataLength(v)])]))

getRunSettle(runId, resp) ==
    LET r == apiRequestSettle(resp) IN
    IF ~r.ok THEN r
    ELSE IF Nullish(r.value) THEN Thrown(TypeErrorOf("response.data"))
    ELSE LET raw == Get(r.value, "data") IN
         IF ~JTruthy(raw) THEN Thrown(Err("Error", <<"Run not found: ", runId>>))
         ELSE Returned(JObj([runId           |-> Get(raw, "run_id"),
                             status          |-> Get(raw, "status"),
                             functionId      |-> Get(raw, "function_id"),
                             functionVersion |-> Get(raw, "function_version"),
                             eventId         |-> Get(raw, "event_id"),
                             startedAt       |-> Get(raw, "run_started_at"),
                             endedAt         |-> Get(raw, "ended_at"),
                             output          |-> Get(raw, "output")]))

getRunJobsSettle(runId, resp) ==
    ListOf(apiRequestSettle(resp), normalizeJobs, "raw.map")

cancelRunsSettle(resp) == apiRequestSettle(resp)

----------------------------------------------------------------------------
(* lib/cancel.ts: parseTime.  A time is a sequence of characters; a number *)
(* of milliseconds is a sequence of decimal digits, most significant       *)
(* first, without leading zeros (zero is the empty sequence), so that the  *)
(* arithmetic is exact over the whole range of a Date.                     *)

Digits == {"0", "1", "2", "3", "4", "5", "6", "7", "8", "9"}

DigitValue(c) ==
    CASE c = "0" -> 0 [] c = "1" -> 1 [] c = "2" -> 2 [] c = "3" -> 3 [] c = "4" -> 4
      [] c = "5" -> 5 [] c = "6" -> 6 [] c = "7" -> 7 [] c = "8" -> 8 [] c = "9" -> 9

\* The string the characters spell.
RECURSIVE Str(_)
Str(chars) == IF chars = <<>> THEN "" ELSE Head(chars) \o Str(Tail(chars))

\* input.includes(c)
Includes(chars, c) == \E i \in 1..Len(chars) : chars[i] = c

RECURSIVE Norm(_)
Norm(d) == IF d # <<>> /\ d[1] = 0 THEN Norm(Tail(d)) ELSE d

RECURSIVE NatDigits(_)
NatDigits(n) == IF n = 0 THEN <<>> ELSE Append(NatDigits(n \div 10), n % 10)

Front(d) == SubSeq(d, 1, Len(d) - 1)

\* d * c + carry, for a small factor c.
RECURSIVE MulCarry(_, _, _)
MulCarry(d, c, carry) ==
    IF d = <<>> THEN NatDigits(carry)
    ELSE LET p == d[Len(d)] * c + carry IN
         Append(MulCarry(Front(d), c, p \div 10), p % 10)

Mul(d, c) == Norm(MulCarry(d, c, 0))

\* a <= b, both without leading zeros.
RECURSIVE LexLeq(_, _)
LexLeq(a, b) ==
    IF a = <<>> THEN TRUE
    ELSE IF a[1] # b[1] THEN a[1] < b[1]
    ELSE LexLeq(Tail(a), Tail(b))

Leq(a, b) == Len(a) < Len(b) \/ (Len(a) = Len(b) /\ LexLeq(a, b))

RECURSIVE PadTo(_, _)
PadTo(d, n) == IF Len(d) >= n THEN d ELSE PadTo(<<0>> \o d, n)

\* a - b - borrow, digit by digit, for sequences of one length with a >= b.
RECURSIVE SubBorrow(_, _, _)
SubBorrow(a, b, borrow) ==
    IF a = <<>> THEN <<>>
    ELSE LET x == a[Len(a)] - b[Len(b)] - borrow IN
         Append(SubBorrow(Front(a), Front(b), IF x < 0 THEN 1 ELSE 0),
                IF x < 0 THEN x + 10 ELSE x)

\* a - b for a >= b.
Sub(a, b) == Norm(SubBorrow(a, PadTo(b, Len(a)), 0))

\* a - b as a signed instant.
Minus(a, b) ==
    IF Leq(b, a) THEN [neg |-> FALSE, mag |-> Sub(a, b)]
    ELSE [neg |-> TRUE, mag |-> Sub(b, a)]

\* A Date holds at most 8,640,000,000,000,000 ms either side of the epoch.
MaxDateMs == <<8, 6, 4>> \o [i \in 1..13 |-> 0]

(* The string parseTime returns: the input as it was, or an ISO timestamp, *)
(* held as the instant it denotes.                                         *)
TimeText(chars) == [iso |-> FALSE, text |-> chars, neg |-> FALSE, ms |-> <<>>]
TimeIso(t) == [iso |-> TRUE, text |-> <<>>, neg |-> t.neg, ms |-> t.mag]
NoTime == TimeText(<<>>)

TimeReturned(v) == [ok |-> TRUE, value |-> v, error |-> NoError]
TimeThrown(e) == [ok |-> FALSE, value |-> NoTime, error |-> e]

\* new Date(t).toISOString(): a RangeError outside the range of a Date.
toISOString(t) ==
    IF Leq(t.mag, MaxDateMs) THEN TimeReturned(TimeIso(t))
    ELSE TimeThrown(Err("RangeError", <<"Invalid time value">>))

\* input.match(/^(\d+)([smhd])$/)
MatchesRelative(input) ==
    /\ Len(input) >= 2
    /\ input[Len(input)] \in {"s", "m", "h", "d"}
    /\ \A i \in 1..(Len(input) - 1) : input[i] \in Digits


\* The switch on the unit with the minutes counted as seconds.
UnitMsMinuteAsSecond(value, unit) ==
    CASE unit = "s" -> Mul(value, 1000)
      [] unit = "m" -> Mul(value, 1000)
      [] unit = "h" -> Mul(Mul(Mul(value, 60), 60), 1000)
      [] unit = "d" -> Mul(Mul(Mul(Mul(value, 24), 60), 60), 1000)

\* The switch on the unit: the milliseconds of `value` units.
UnitMs(value, unit) ==
    CASE unit = "s" -> Mul(value, 1000)
      [] unit = "m" -> Mul(Mul(value, 60), 1000)
      [] unit = "h" -> Mul(Mul(Mul(value, 60), 60), 1000)
      [] unit = "d" -> Mul(Mul(Mul(Mul(value, 24), 60), 60), 1000)

InvalidTimeFormat(input) ==
    Err("Error", <<"Invalid time format: ", Str(input),
                   ". Use ISO format or relative time (e.g., 1h, 30m, 2d)">>)


parseTime(input, now) ==
    IF Includes(input, "T") \/ Includes(input, "-") THEN TimeReturned(TimeText(input))
    ELSE IF ~MatchesRelative(input) THEN TimeThrown(InvalidTimeFormat(input))
    ELSE LET digits == Front(input)
             value == Norm([i \in 1..Len(digits) |-> DigitValue(digits[i])])
         IN  toISOString(Minus(now, UnitMs(value, input[Len(input)])))

----------------------------------------------------------------------------
(* lib/output.ts *)

Has(result, key) == result.t = "object" /\ key \in DOMAIN result.o
IsString(v) == v.t = "string"

isEventResult(result) ==
    Has(result, "ids") /\ Has(result, "status") /\ Get(result, "ids").t = "array"

isEventListResult(result) ==
    Has(result, "events") /\ Has(result, "meta") /\ Get(result, "events").t = "array"

isEventDetails(result) ==
    Has(result, "id") /\ Has(result, "name") /\ Has(result, "receivedAt")
    /\ ~Has(result, "events")

isEventRunArray(result) ==
    /\ result.t = "array"
    /\ \/ Len(result.a) = 0
       \/ (Has(result.a[1], "runId") /\ Has(result.a[1], "functionId"))

isRunJobArray(result) ==
    /\ result.t = "array"
    /\ Len(result.a) > 0
    /\ Has(result.a[1], "jobId")
    /\ Has(result.a[1], "stepId")

isCancelResult(result) ==
    Has(result, "cancelled") /\ Get(result, "cancelled").t = "number"

isRunStatus(result) ==
    Has(result, "runId") /\ Has(result, "status") /\ Has(result, "functionId")

\* The formatter printPretty picks, in the order of its if-chain.
PrettyTemplate(result) ==
    CASE isEventResult(result) -> "printEventResult"
      [] isEventListResult(result) -> "printEventList"
      [] isEventDetails(result) -> "printEventDetails"
      [] isEventRunArray(result) -> "printEventRuns"
      [] isRunStatus(result) -> "printRunStatus"
      [] isRunJobArray(result) -> "printRunJobs"
      [] isCancelResult(result) -> "printCancelResult"
      [] OTHER -> "JSON.stringify"

\* A formatter throws a TypeError when it calls a string method (toLowerCase,
\* slice) on a field that is no string.
PrettyThrows(result) ==
    LET t == PrettyTemplate(result) IN
    CASE t = "printEventDetails" -> ~IsString(Get(result, "name"))
      [] t = "printEventList" ->
            \E i \in 1..Len(Get(result, "events").a) :
                LET ev == Get(result, "events").a[i] IN
                ~IsString(Get(ev, "id")) \/ ~IsString(Get(ev, "name"))
      [] t = "printEventRuns" ->
            \E i \in 1..Len(result.a) : ~IsString(Get(result.a[i], "status"))
      [] t = "printRunJobs" ->
            \E i \in 1..Len(result.a) : ~IsString(Get(result.a[i], "status"))
      [] t = "printRunStatus" -> ~IsString(Get(result, "status"))
      [] OTHER -> FALSE

(* Lines on stdout and stderr. *)
UsageLine(which) == [kind |-> "usage", text |-> <<which>>]
TextLine(parts) == [kind |-> "text", text |-> parts]
JsonLine(result) == [kind |-> "json", value |-> Stringify(result)]
PrettyLine(result) == [kind |-> "pretty", template |-> PrettyTemplate(result), value |-> result]
PrettyPartialLine(result) ==
    [kind |-> "pretty-partial", template |-> PrettyTemplate(result), value |-> result]

\* An error printer that ignores --pretty.
printErrorJson(message, pretty) == [kind |-> "error-json", text |-> message]

\* printError: the colorized line with --pretty, the JSON object without.
printError(message, pretty) ==
    IF pretty THEN [kind |-> "error-pretty", text |-> <<"Error:">> \o message]
    ELSE [kind |-> "error-json", text |-> message]

(* Bun.write, which printOutput does not await. *)
NoFiles == [pending |-> FALSE, path |-> Undefined, content |-> JUndef, written |-> FALSE]

----------------------------------------------------------------------------
(* The inputs of one invocation: the argument vector, the environment, the *)
(* data file, the clock and the server's answer.                           *)

Cat(A, B) == {a \o b : a \in A, b \in B}

IsoDateTime ==
    <<"2", "0", "2", "4", "-", "0", "1", "-", "0", "1", "T",
      "1", "0", ":", "0", "0", ":", "0", "0", "Z">>

\* The time values given to cancel on the command line.
CliTimes ==
    {<<"1", "h">>, <<"7", "d">>, <<"1", "w">>, <<"n", "o", "w">>, IsoDateTime,
     <<"n", "e", "x", "t", "-", "w", "e", "e", "k">>}

\* The characters of a time argument.
Chars(s) == CHOOSE c \in CliTimes : Str(c) = s

EventJson == "{\"userId\":\"123\"}"

\* The command lines: each command with its arguments present, absent and in both
\* spellings, then the global flags.
ArgvSet ==
    LET TopLines ==
            {<<>>, <<Word("help")>>, <<Flag("help")>>, <<Word("-h")>>, <<Word("version")>>,
             <<Flag("version")>>, <<Word("-v")>>, <<Word("deploy")>>}
        NameForms ==
            {<<>>, <<Flag("name"), Word("user.signup")>>, <<FlagEq("name", "user.signup")>>,
             <<FlagEq("name", "")>>}
        DataForms == {<<>>, <<Flag("data"), Word(EventJson)>>, <<FlagEq("data", "invalid")>>}
        FileForms == {<<>>, <<Flag("data-file"), Word("/tmp/event.json")>>}
        EventsLines ==
            {<<Word("events")>>, <<Word("events"), Word("help")>>,
             <<Word("events"), Flag("help")>>, <<Word("events"), Word("-h")>>,
             <<Word("events"), Word("purge")>>,
             <<Word("events"), Flag("version")>>,
             <<Word("events"), Word("get")>>, <<Word("events"), Word("get"), Word("evt-1")>>,
             <<Word("events"), Word("get"), Flag("help")>>,
             <<Word("events"), Word("runs")>>, <<Word("events"), Word("runs"), Word("evt-1")>>,
             <<Word("events"), Word("runs"), Flag("internal")>>,
             <<Word("events"), Word("runs"), Word("")>>,
             <<Word("events"), Word("list")>>,
             <<Word("events"), Word("list"), Flag("name"), Flag("internal")>>,
             <<Word("events"), Word("list"), Flag("name"), Word("user.signup"),
               FlagEq("limit", "10")>>,
             <<Word("events"), Word("send"), Flag("name"), Word("user.signup"),
               FlagEq("data", "{}"), Flag("id"), Word("dedupe-1"), FlagEq("env", "feature/x")>>}
            \cup Cat({<<Word("events"), Word("send")>>}, Cat(NameForms, Cat(DataForms, FileForms)))
        RunsLines ==
            {<<Word("runs")>>, <<Word("runs"), Flag("help")>>, <<Word("runs"), Word("retry")>>,
             <<Word("runs"), Word("get")>>, <<Word("runs"), Word("get"), Word("run-1")>>,
             <<Word("runs"), Word("status")>>, <<Word("runs"), Word("status"), Word("run-1")>>,
             <<Word("runs"), Word("list")>>,
             <<Word("runs"), Word("list"), Flag("event"), Word("evt-1")>>,
             <<Word("runs"), Word("list"), FlagEq("event", "evt-1")>>,
             <<Word("runs"), Word("list"), Flag("event"), Flag("internal")>>,
             <<Word("runs"), Word("list"), Flag("event"), Word("")>>}
        AppForms == {<<>>, <<Flag("app"), Word("my-app")>>}
        FunctionForms == {<<>>, <<FlagEq("function", "my-func")>>}
        AfterForms ==
            {<<>>, <<Flag("started-after"), Word("1h")>>, <<Flag("started-after"), Word("1w")>>,
             <<FlagEq("started-after", Str(IsoDateTime))>>,
             <<Flag("started-after"), Word("next-week")>>}
        BeforeForms ==
            {<<>>, <<Flag("started-before"), Word("now")>>, <<Flag("started-before"), Word("7d")>>}
        CancelLines ==
            Cat({<<Word("cancel")>>},
                Cat(AppForms, Cat(FunctionForms, Cat(AfterForms, BeforeForms))))
            \cup {<<Word("cancel"), Flag("app"), Word("my-app"), FlagEq("function", "my-func"),
                    Flag("started-after"), Word("1h"), Flag("started-before"), Word("7d"),
                    Flag("if"), Word("event.data.userId == '123'")>>,
                  <<Word("cancel"), Flag("app"), Word("my-app"), Flag("function"),
                    Word("my-func"), Flag("started-after"), Word("1h"),
                    Flag("started-before"), Word("now")>>,
                  <<Word("cancel"), Flag("help")>>, <<Word("cancel"), Word("version")>>}
        ModeForms ==
            {<<>>, <<Flag("port"), Word("9000")>>, <<Flag("dev")>>,
             <<Flag("dev"), FlagEq("port", "0")>>, <<Flag("port"), Word("09000"), Flag("dev")>>}
        PrettyForms == {<<>>, <<Flag("pretty")>>}
        OutputForms == {<<>>, <<Flag("output"), Word("out.json")>>}
    IN  Cat(TopLines \cup EventsLines \cup RunsLines \cup CancelLines,
            Cat(ModeForms, Cat(PrettyForms, OutputForms)))

Envs ==
    [signingKey : {Undefined, "", "signkey-prod"}, eventKey : {Undefined, "", "evtkey-prod"},
     devUrl : {Undefined, "", DevHost \o "/", DevHost \o "//"}]

NoEnv == [signingKey |-> Undefined, eventKey |-> Undefined, devUrl |-> Undefined]

\* What readDataFile finds at the path: no file, or a file with this text.
FileMissing == "<no such file>"
FileTexts == {FileMissing, EventJson, "not json"}

\* Date.now(), in milliseconds: 2024-01-01T10:00:00Z and a moment later.
Now1 == <<1, 7, 0, 4, 1, 0, 3, 2, 0, 0, 0, 0, 0>>
Now2 == <<1, 7, 0, 4, 1, 0, 3, 2, 0, 0, 0, 0, 7>>
Clock == {<<Now1, Now1>>, <<Now1, Now2>>}

ErrorBodies ==
    {"Internal Server Error", "null", "{\"error\":\"boom\"}", "{\"error\":\"\"}",
     "{\"error\":5}", "{\"message\":\"nope\"}"}

OkBodies(op) ==
    CASE op = "sendEvent" -> {"{\"ids\":[\"evt-new\"],\"status\":200}", "{}", "null"}
      [] op = "getEvent" ->
            {"{\"data\":<event>}", "{\"data\":<eventCamel>}", "{\"data\":null}", "{}"}
      [] op = "listEvents" ->
            {"{\"data\":[<event>,<eventTs>],\"metadata\":{\"fetched_at\":\"2024-01-02T00:00:00Z\"}}",
             "{\"data\":[]}", "{\"data\":null}", "{}"}
      [] op = "getEventRuns" ->
            {"{\"data\":[<runCompleted>,<runRunning>]}", "{\"data\":[<runCamel>]}", "{\"data\":[]}",
             "{\"data\":null}"}
      [] op = "getRun" ->
            {"{\"data\":<runCompleted>}", "{\"data\":<runRunning>}", "{\"data\":<runCamel>}",
             "{\"data\":null}", "{}"}
      [] op = "getRunJobs" -> {"{\"data\":[<job>,<jobCamel>]}", "{\"data\":[]}", "{}"}
      [] op = "cancelRuns" -> {"{\"cancelled\":3}"}

\* How the fetch of an operation can settle.
Responses(op) ==
    {Resp(200, b) : b \in OkBodies(op) \cup {"<html>"}}
    \cup {Resp(299, "{}"), Resp(300, "{\"error\":\"boom\"}")}
    \cup {Resp(404, b) : b \in ErrorBodies}
    \cup {NetworkError}

----------------------------------------------------------------------------
(* cli.ts: the state of one invocation *)

NoCall ==
    [op |-> "", id |-> Undefined, name |-> Undefined, data |-> JUndef,
     dataFile |-> Undefined, dedupeId |-> Undefined, envName |-> Undefined,
     limit |-> Undefined, appId |-> Undefined, functionId |-> Undefined,
     startedAfter |-> Undefined, startedBefore |-> Undefined, ifExpr |-> Undefined,
     dev |-> FALSE, port |-> Undefined]

Init ==
    /\ pc = "main"
    /\ argv \in ArgvSet
    /\ flags = GlobalFlagsInit
    /\ positional = <<>>
    /\ call = NoCall
    /\ env = NoEnv
    /\ requests = <<>>
    /\ response = NoResponse
    /\ thrown = NoError
    /\ stdout = <<>>
    /\ stderr = <<>>
    /\ exitCode = -1
    /\ fileReads = <<>>
    /\ files = NoFiles
    /\ tin = [fn |-> "", input |-> <<>>, now |-> <<>>]
    /\ tout = TimeReturned(NoTime)

\* console.log / console.error of these lines, then the process ends with this code.
Quit(out, err, code) ==
    /\ stdout' = stdout \o out
    /\ stderr' = stderr \o err
    /\ pc' = "exited"
    /\ exitCode' = code
    /\ UNCHANGED thrown

\* A catch that prints the error and lets the process end normally.
CatchExitCodeNormal(e) == 0

\* The exit code of main's catch.
CatchExitCode(e) == 1

\* main's catch: printError(err.message, flags.pretty); process.exit(1), after `out`
\* was printed.
Caught(e, out) ==
    /\ thrown' = e
    /\ stdout' = stdout \o out
    /\ stderr' = Append(stderr, printError(e.message, flags.pretty))
    /\ pc' = "exited"
    /\ exitCode' = CatchExitCode(e)

\* The handler goes on to the operation `next` with these options.
Proceed(next, options) ==
    /\ pc' = next
    /\ call' = [options EXCEPT !.op = next, !.dev = flags.dev, !.port = flags.port]
    /\ UNCHANGED <<stdout, stderr, exitCode, thrown>>

\* printError(message, flags.pretty); process.exit(1) in a handler.
Reject(message) == Quit(<<>>, <<printError(message, flags.pretty)>>, 1)

\* An unknown word that is answered with the usage text and exit code 0.
UnknownAsHelp(prefix, word, usage, pretty) == Quit(<<UsageLine(usage)>>, <<>>, 0)

\* The default branch of main, handleEvents and handleRuns:
\* printError(`Unknown ...: ${word}`, flags.pretty), the usage text, process.exit(1).
Unknown(prefix, word, usage, pretty) ==
    Quit(<<UsageLine(usage)>>, <<printError(<<prefix, word>>, pretty)>>, 1)

HelpWords == {"help", "--help", "-h"}
VERSION == "0.1.0"

Main ==
    /\ pc = "main"
    /\ LET p == parseGlobalFlags(argv)
           command == First(p.positional)
       IN /\ flags' = p.flags
          /\ positional' = p.positional
          /\ IF Len(p.positional) = 0
             THEN stdout' = <<UsageLine("main")>> /\ stderr' = stderr
                  /\ pc' = "exited" /\ exitCode' = 1
             ELSE IF command = "events"
             THEN pc' = "handleEvents" /\ UNCHANGED <<stdout, stderr, exitCode>>
             ELSE IF command = "runs"
             THEN pc' = "handleRuns" /\ UNCHANGED <<stdout, stderr, exitCode>>
             ELSE IF command = "cancel"
             THEN pc' = "handleCancel" /\ UNCHANGED <<stdout, stderr, exitCode>>
             ELSE IF command \in HelpWords
             THEN stdout' = <<UsageLine("main")>> /\ stderr' = stderr
                  /\ pc' = "exited" /\ exitCode' = 0
             ELSE IF command \in {"version", "--version", "-v"}
             THEN stdout' = <<TextLine(<<VERSION>>)>> /\ stderr' = stderr
                  /\ pc' = "exited" /\ exitCode' = 0
             ELSE Unknown("Unknown command: ", command, "main", p.flags.pretty)
    /\ UNCHANGED <<argv, call, env, requests, response, thrown, fileReads, files, tin, tout>>

\* The checks of `events send` with the check of --name left out.
sendRequiredDataOnly(name, dataStr, dataFile) ==
    IF ~Truthy(dataStr) /\ ~Truthy(dataFile) THEN "--data or --data-file is required"
    ELSE ""

\* The required-argument checks of `events send`: the message of the first that
\* fails, "" when none does.
sendRequired(name, dataStr, dataFile) ==
    IF ~Truthy(name) THEN "--name is required"
    ELSE IF ~Truthy(dataStr) /\ ~Truthy(dataFile) THEN "--data or --data-file is required"
    ELSE ""

\* The check of a positional id.
idRequired(id, what) == IF ~Truthy(id) THEN what \o " ID is required" ELSE ""

\* The check of `runs list`.
eventRequired(eventId) == IF ~Truthy(eventId) THEN "--event is required" ELSE ""

\* The required-argument checks of `cancel`, in the order of the code.
cancelRequired(appId, functionId, startedAfter, startedBefore) ==
    IF ~Truthy(appId) THEN "--app is required"
    ELSE IF ~Truthy(functionId) THEN "--function is required"
    ELSE IF ~Truthy(startedAfter) THEN "--started-after is required"
    ELSE IF ~Truthy(startedBefore) THEN "--started-before is required"
    ELSE ""

\* A source label that names --data whatever the data was read from.
DataSourceFlag(dataFile) == "--data"

\* The `source` of the catch around JSON.parse in `events send`.
DataSource(dataFile) ==
    IF Truthy(dataFile) THEN "--data-file (" \o dataFile \o ")" ELSE "--data"

HandleEvents ==
    /\ pc = "handleEvents"
    /\ LET args == Rest(positional)
           subcommand == First(args)
           subArgs == Rest(args)
           parsed == parseNamedArgs(subArgs)
           name == Named(parsed, "name")
           dataStr == Named(parsed, "data")
           dataFile == Named(parsed, "data-file")
           send == [NoCall EXCEPT !.name = name, !.dataFile = dataFile,
                                  !.dedupeId = Named(parsed, "id"),
                                  !.envName = Named(parsed, "env")]
       IN IF Len(args) = 0
          THEN Quit(<<UsageLine("events")>>, <<>>, 1) /\ UNCHANGED call
          ELSE IF subcommand \in HelpWords
          THEN Quit(<<UsageLine("events")>>, <<>>, 0) /\ UNCHANGED call
          ELSE IF subcommand = "send"
          THEN IF sendRequired(name, dataStr, dataFile) # ""
               THEN Reject(<<sendRequired(name, dataStr, dataFile)>>) /\ UNCHANGED call
               ELSE IF Truthy(dataFile)
               THEN Proceed("readDataFile", send)
               ELSE IF JsonParse(dataStr) = SyntaxError
               THEN Reject(<<DataSource(dataFile), " must be valid JSON">>) /\ UNCHANGED call
               ELSE Proceed("sendEvent", [send EXCEPT !.data = JsonParse(dataStr)])
          ELSE IF subcommand = "get"
          THEN IF idRequired(First(subArgs), "Event") # ""
               THEN Reject(<<idRequired(First(subArgs), "Event")>>) /\ UNCHANGED call
               ELSE Proceed("getEvent", [NoCall EXCEPT !.id = First(subArgs)])
          ELSE IF subcommand = "runs"
          THEN IF idRequired(First(subArgs), "Event") # ""
               THEN Reject(<<idRequired(First(subArgs), "Event")>>) /\ UNCHANGED call
               ELSE Proceed("getEventRuns", [NoCall EXCEPT !.id = First(subArgs)])
          ELSE IF subcommand = "list"
          THEN Proceed("listEvents",
                       [NoCall EXCEPT !.name = name,
                                      !.limit = IF Truthy(Named(parsed, "limit"))
                                                THEN ParseInt10(Named(parsed, "limit"))
                                                ELSE Undefined])
          ELSE Unknown("Unknown events subcommand: ", subcommand, "events", flags.pretty)
               /\ UNCHANGED call
    /\ UNCHANGED <<argv, flags, positional, env, requests, response, fileReads, files, tin, tout>>

\* A handler whose `list` asks for the jobs of a run.
HandleRunsListingJobs ==
    /\ pc = "handleRuns"
    /\ LET args == Rest(positional)
           subcommand == First(args)
           subArgs == Rest(args)
           eventId == Named(parseNamedArgs(subArgs), "event")
       IN IF Len(args) = 0
          THEN Quit(<<UsageLine("runs")>>, <<>>, 1) /\ UNCHANGED call
          ELSE IF subcommand \in HelpWords
          THEN Quit(<<UsageLine("runs")>>, <<>>, 0) /\ UNCHANGED call
          ELSE IF subcommand = "get"
          THEN IF idRequired(First(subArgs), "Run") # ""
               THEN Reject(<<idRequired(First(subArgs), "Run")>>) /\ UNCHANGED call
               ELSE Proceed("getRunJobs", [NoCall EXCEPT !.id = First(subArgs)])
          ELSE IF subcommand = "list"
          THEN IF eventRequired(eventId) # ""
               THEN Reject(<<eventRequired(eventId)>>) /\ UNCHANGED call
               ELSE Proceed("getRunJobs", [NoCall EXCEPT !.id = eventId])
          ELSE IF subcommand = "status"
          THEN IF idRequired(First(subArgs), "Run") # ""
               THEN Reject(<<idRequired(First(subArgs), "Run")>>) /\ UNCHANGED call
               ELSE Proceed("getRun", [NoCall EXCEPT !.id = First(subArgs)])
          ELSE Unknown("Unknown runs subcommand: ", subcommand, "runs", flags.pretty)
               /\ UNCHANGED call
    /\ UNCHANGED <<argv, flags, positional, env, requests, response, fileReads, files, tin, tout>>

HandleRuns ==
    /\ pc = "handleRuns"
    /\ LET args == Rest(positional)
           subcommand == First(args)
           subArgs == Rest(args)
           eventId == Named(parseNamedArgs(subArgs), "event")
       IN IF Len(args) = 0
          THEN Quit(<<UsageLine("runs")>>, <<>>, 1) /\ UNCHANGED call
          ELSE IF subcommand \in HelpWords
          THEN Quit(<<UsageLine("runs")>>, <<>>, 0) /\ UNCHANGED call
          ELSE IF subcommand = "get"
          THEN IF idRequired(First(subArgs), "Run") # ""
               THEN Reject(<<idRequired(First(subArgs), "Run")>>) /\ UNCHANGED call
               ELSE Proceed("getRunJobs", [NoCall EXCEPT !.id = First(subArgs)])
          ELSE IF subcommand = "list"
          THEN IF eventRequired(eventId) # ""
               THEN Reject(<<eventRequired(eventId)>>) /\ UNCHANGED call
               ELSE Proceed("getEventRuns", [NoCall EXCEPT !.id = eventId])
          ELSE IF subcommand = "status"
          THEN IF idRequired(First(subArgs), "Run") # ""
               THEN Reject(<<idRequired(First(subArgs), "Run")>>) /\ UNCHANGED call
               ELSE Proceed("getRun", [NoCall EXCEPT !.id = First(subArgs)])
          ELSE Unknown("Unknown runs subcommand: ", subcommand, "runs", flags.pretty)
               /\ UNCHANGED call
    /\ UNCHANGED <<argv, flags, positional, env, requests, response, fileReads, files, tin, tout>>

HandleCancel ==
    /\ pc = "handleCancel"
    /\ LET parsed == parseNamedArgs(Rest(positional))
           appId == Named(parsed, "app")
           functionId == Named(parsed, "function")
           startedAfter == Named(parsed, "started-after")
           startedBefore == Named(parsed, "started-before")
           missing == cancelRequired(appId, functionId, startedAfter, startedBefore)
       IN IF missing # ""
          THEN Reject(<<missing>>) /\ UNCHANGED call
          ELSE Proceed("cancelRuns",
                       [NoCall EXCEPT !.appId = appId, !.functionId = functionId,
                                      !.startedAfter = startedAfter,
                                      !.startedBefore = startedBefore,
                                      !.ifExpr = Named(parsed, "if")])
    /\ UNCHANGED <<argv, flags, positional, env, requests, response, fileReads, files, tin, tout>>


\* readDataFile and JSON.parse inside the try of `events send`.
ReadDataFile ==
    /\ pc = "readDataFile"
    /\ \E text \in FileTexts :
        /\ fileReads' = Append(fileReads, [path |-> call.dataFile, text |-> text])
        /\ IF text = FileMissing \/ JsonParse(text) = SyntaxError
           THEN Reject(<<DataSource(call.dataFile), " must be valid JSON">>)
                /\ UNCHANGED call
           ELSE Proceed("sendEvent", [call EXCEPT !.data = JsonParse(text)])
    /\ UNCHANGED <<argv, flags, positional, env, requests, response, files, tin, tout>>

----------------------------------------------------------------------------
(* The domain operations, up to the fetch each issues *)

\* A payload that carries the name alone.
sendEventPayloadNameOnly(options) == JObj([name |-> JStr(options.name)])

\* The event key of the client as it is, with no placeholder.
sendEventKeyAsIs(options, client) == client.eventKey

\* Dev server accepts any event key: a placeholder when none is set.
sendEventKey(options, client) ==
    IF options.dev THEN (IF Truthy(client.eventKey) THEN client.eventKey ELSE "test")
    ELSE client.eventKey

\* sendEvent throws before its fetch when the event key is required and missing.
sendEventNeedsKey(options, client) == ~options.dev /\ ~validateEventKey(client.eventKey)

\* Headers of an authenticated request.
sendEventHeadersWithBearer(options) ==
    [h \in {"Content-Type", "Authorization"} |->
        IF h = "Authorization" THEN "Bearer " \o env.signingKey ELSE "application/json"]

sendEventHeaders(options) ==
    IF Truthy(options.envName)
    THEN [h \in {"Content-Type", "x-inngest-env"} |->
            IF h = "x-inngest-env" THEN options.envName ELSE "application/json"]
    ELSE ContentType

sendEventPayload(options) ==
    IF Truthy(options.dedupeId)
    THEN JObj([name |-> JStr(options.name), data |-> options.data, id |-> JStr(options.dedupeId)])
    ELSE JObj([name |-> JStr(options.name), data |-> options.data])

\* The fetch() sendEvent issues.
sendEventFetch(options, e) ==
    [by      |-> "sendEvent",
     method  |-> "POST",
     url     |-> getEventGatewayUrl(sendEventKey(options, createClient(options, e)), options, e),
     headers |-> sendEventHeaders(options),
     body    |-> Stringify(sendEventPayload(options))]

\* new URLSearchParams with limit, then name, and the path of listEvents.
listEventsPath(options) ==
    LET limit == IF options.limit \notin {Undefined, "0", "NaN"}
                 THEN <<"limit=" \o options.limit>> ELSE <<>>
        name  == IF Truthy(options.name) THEN <<"name=" \o options.name>> ELSE <<>>
        q     == limit \o name
    IN  "/v1/events" \o (IF Len(q) = 0 THEN ""
                         ELSE IF Len(q) = 1 THEN "?" \o q[1]
                         ELSE "?" \o q[1] \o "&" \o q[2])

\* The string a parsed time is in the request body.
TimeJson(v) ==
    IF v.iso THEN [t |-> "string", s |-> "<toISOString>", neg |-> v.neg, ms |-> v.ms]
    ELSE JStr(Str(v.text))

\* A body with the two bounds in each other's field.
cancelBodySwapped(options, after, before) ==
    JObj([app_id |-> JStr(options.appId), function_id |-> JStr(options.functionId),
          started_after |-> TimeJson(before), started_before |-> TimeJson(after)])

cancelBody(options, after, before) ==
    IF Truthy(options.ifExpr)
    THEN JObj([app_id |-> JStr(options.appId), function_id |-> JStr(options.functionId),
               started_after |-> TimeJson(after), started_before |-> TimeJson(before),
               if |-> JStr(options.ifExpr)])
    ELSE JObj([app_id |-> JStr(options.appId), function_id |-> JStr(options.functionId),
               started_after |-> TimeJson(after), started_before |-> TimeJson(before)])

\* The fetch is issued and the operation awaits it.
Issue(request) ==
    /\ requests' = Append(requests, request)
    /\ pc' = "fetch"
    /\ UNCHANGED <<stdout, stderr, exitCode, thrown>>

\* createClient, then apiRequest up to its fetch.
ApiCall(e, method, path, body) ==
    LET client == createClient(call, e) IN
    IF apiRequestNeedsKey(client)
    THEN Caught(Err("Error", SigningKeyMessage), <<>>) /\ UNCHANGED requests
    ELSE Issue(apiRequestFetch(client, method, path, body))

SendEvent ==
    /\ pc = "sendEvent"
    /\ \E e \in Envs :
        /\ env' = e
        /\ IF sendEventNeedsKey(call, createClient(call, e))
           THEN Caught(Err("Error", EventKeyMessage), <<>>) /\ UNCHANGED requests
           ELSE Issue(sendEventFetch(call, e))
    /\ UNCHANGED <<argv, flags, positional, call, response, fileReads, files, tin, tout>>

GetEvent ==
    /\ pc = "getEvent"
    /\ \E e \in Envs : env' = e /\ ApiCall(e, "GET", "/v1/events/" \o call.id, NoBody)
    /\ UNCHANGED <<argv, flags, positional, call, response, fileReads, files, tin, tout>>

GetEventRuns ==
    /\ pc = "getEventRuns"
    /\ \E e \in Envs :
        env' = e /\ ApiCall(e, "GET", "/v1/events/" \o call.id \o "/runs", NoBody)
    /\ UNCHANGED <<argv, flags, positional, call, response, fileReads, files, tin, tout>>

ListEvents ==
    /\ pc = "listEvents"
    /\ \E e \in Envs : env' = e /\ ApiCall(e, "GET", listEventsPath(call), NoBody)
    /\ UNCHANGED <<argv, flags, positional, call, response, fileReads, files, tin, tout>>

GetRun ==
    /\ pc = "getRun"
    /\ \E e \in Envs : env' = e /\ ApiCall(e, "GET", "/v1/runs/" \o call.id, NoBody)
    /\ UNCHANGED <<argv, flags, positional, call, response, fileReads, files, tin, tout>>

GetRunJobs ==
    /\ pc = "getRunJobs"
    /\ \E e \in Envs :
        env' = e /\ ApiCall(e, "GET", "/v1/runs/" \o call.id \o "/jobs", NoBody)
    /\ UNCHANGED <<argv, flags, positional, call, response, fileReads, files, tin, tout>>

\* cancelRuns: createClient, the two parseTime calls (each reads the clock), apiRequest.
CancelRuns ==
    /\ pc = "cancelRuns"
    /\ \E e \in Envs, clock \in Clock :
        LET after  == parseTime(Chars(call.startedAfter), clock[1])
            before == parseTime(Chars(call.startedBefore), clock[2])
        IN /\ env' = e
           /\ tin' = [fn |-> "cancelRuns", input |-> <<>>, now |-> clock[1]]
           /\ IF ~after.ok THEN Caught(after.error, <<>>) /\ UNCHANGED requests
              ELSE IF ~before.ok THEN Caught(before.error, <<>>) /\ UNCHANGED requests
              ELSE ApiCall(e, "POST", "/v1/cancellations",
                           cancelBody(call, after.value, before.value))
    /\ UNCHANGED <<argv, flags, positional, call, response, fileReads, files, tout>>

----------------------------------------------------------------------------
(* After the fetch settles *)

\* What the operation returns or throws once its fetch has settled.
Settle(options, resp) ==
    CASE options.op = "sendEvent" -> sendEventSettle(resp)
      [] options.op = "getEvent" -> getEventSettle(options.id, resp)
      [] options.op = "getEventRuns" -> getEventRunsSettle(options.id, resp)
      [] options.op = "listEvents" -> listEventsSettle(resp)
      [] options.op = "getRun" -> getRunSettle(options.id, resp)
      [] options.op = "getRunJobs" -> getRunJobsSettle(options.id, resp)
      [] options.op = "cancelRuns" -> cancelRunsSettle(resp)

\* A printOutput that looks at --pretty before --output.
printOutputPrettyFirst(result) ==
    IF flags.pretty /\ ~PrettyThrows(result)
    THEN Quit(<<PrettyLine(result)>>, <<>>, 0) /\ UNCHANGED files
    ELSE Quit(<<JsonLine(result)>>, <<>>, 0) /\ UNCHANGED files

\* printOutput(result, flags): the file takes precedence over --pretty.
printOutput(result) ==
    IF Truthy(flags.output)
    THEN /\ files' = [pending |-> TRUE, path |-> flags.output,
                      content |-> Stringify(result), written |-> FALSE]
         /\ stdout' = Append(stdout, TextLine(<<"Output written to ", flags.output>>))
         /\ pc' = "write"
         /\ UNCHANGED <<stderr, exitCode, thrown>>
    ELSE IF flags.pretty
    THEN IF PrettyThrows(result)
         THEN Caught(TypeErrorOf("formatter"), <<PrettyPartialLine(result)>>) /\ UNCHANGED files
         ELSE Quit(<<PrettyLine(result)>>, <<>>, 0) /\ UNCHANGED files
    ELSE Quit(<<JsonLine(result)>>, <<>>, 0) /\ UNCHANGED files

\* A failed operation is run once more before its error reaches main's catch.
RethrowAfterRetry(e) ==
    IF Len(requests) < 2
    THEN pc' = call.op /\ UNCHANGED <<thrown, stdout, stderr, exitCode, files>>
    ELSE Caught(e, <<>>) /\ UNCHANGED files

\* A catch that leaves a report of the error in the --output file.
RethrowWritingReport(e) ==
    /\ Caught(e, <<>>)
    /\ files' = IF Truthy(flags.output)
                THEN [pending |-> FALSE, path |-> flags.output,
                      content |-> JObj([error |-> JStr("failed")]), written |-> TRUE]
                ELSE files

\* The operation's rejection propagates through the handler to main's catch.
Rethrow(e) == Caught(e, <<>>) /\ UNCHANGED files

\* The awaited fetch settles: the operation returns and the handler prints, or the
\* operation throws and main catches.
FetchSettles ==
    /\ pc = "fetch"
    /\ \E resp \in Responses(call.op) :
        /\ response' = resp
        /\ IF Settle(call, resp).ok
           THEN printOutput(Settle(call, resp).value)
           ELSE Rethrow(Settle(call, resp).error)
    /\ UNCHANGED <<argv, flags, positional, call, env, requests, fileReads, tin, tout>>

\* The write printOutput started settles: the file is on disk, or the promise
\* rejects with nobody to handle it and the runtime ends the process with code 1.
WriteSettles ==
    /\ pc = "write"
    /\ \E done \in BOOLEAN :
        /\ files' = [files EXCEPT !.pending = FALSE, !.written = done]
        /\ IF done THEN Quit(<<>>, <<>>, 0)
           ELSE Quit(<<>>, <<[kind |-> "unhandled-rejection", text |-> <<"EACCES">>]>>, 1)
    /\ UNCHANGED <<argv, flags, positional, call, env, requests, response, fileReads, tin, tout>>

Next ==
    \/ Main
    \/ HandleEvents
    \/ HandleRuns
    \/ HandleCancel
    \/ ReadDataFile
    \/ SendEvent
    \/ GetEvent
    \/ GetEventRuns
    \/ ListEvents
    \/ GetRun
    \/ GetRunJobs
    \/ CancelRuns
    \/ FetchSettles
    \/ WriteSettles

Spec == Init /\ [][Next]_vars

----------------------------------------------------------------------------
(* parseTime on its own: every short input over the characters a time is   *)
(* written with, and a few long ones, each at two readings of the clock.   *)

MaxTimeLen == 3

RECURSIVE SeqsUpTo(_, _)
SeqsUpTo(S, n) ==
    IF n = 0 THEN {<<>>}
    ELSE LET shorter == SeqsUpTo(S, n - 1) IN
         shorter \cup {Append(q, c) : q \in shorter, c \in S}

\* The inputs of parseTime: the short ones, and long ones either side of the
\* earliest instant a Date holds (8,641,704,103,200 s, or 100,019,723 days and a
\* few hours, before Now1).
TimeInputs ==
    LET TimeAlphabet == {"0", "1", "9", "s", "m", "h", "d", "w", "T", "-"}
        LongTimes ==
            {IsoDateTime,
             <<"2", "0", "2", "4", "-", "0", "1", "-", "0", "1">>,
             <<"2", "0", "2", "4", "0", "1", "0", "1">>,
             <<"n", "o", "w">>,
             <<"0", "0", "9", "0", "m">>,
             <<"1", "0", "0", "0", "1", "9", "7", "2", "3", "d">>,
             <<"1", "0", "0", "0", "1", "9", "7", "2", "4", "d">>,
             <<"8", "6", "4", "1", "7", "0", "4", "1", "0", "3", "2", "0", "0", "s">>,
             <<"8", "6", "4", "1", "7", "0", "4", "1", "0", "3", "2", "0", "1", "s">>,
             <<"9", "9", "9", "9", "9", "9", "9", "9", "9", "9", "9", "9", "9", "9", "9", "9",
               "9", "9", "h">>}
    IN  SeqsUpTo(TimeAlphabet, MaxTimeLen) \cup LongTimes

InitTime ==
    /\ pc = "parseTime"
    /\ tin \in [fn : {"parseTime"}, input : TimeInputs, now : {Now1, Now2}]
    /\ tout = TimeReturned(NoTime)
    /\ argv = <<>>
    /\ flags = GlobalFlagsInit
    /\ positional = <<>>
    /\ call = NoCall
    /\ env = NoEnv
    /\ requests = <<>>
    /\ response = NoResponse
    /\ thrown = NoError
    /\ stdout = <<>>
    /\ stderr = <<>>
    /\ exitCode = -1
    /\ fileReads = <<>>
    /\ files = NoFiles

ParseTimeCall ==
    /\ pc = "parseTime"
    /\ tout' = parseTime(tin.input, tin.now)
    /\ pc' = "returned"
    /\ UNCHANGED <<argv, flags, positional, call, env, requests, response, thrown,
                   stdout, stderr, exitCode, fileReads, files, tin>>

SpecTime == InitTime /\ [][ParseTimeCall]_vars

----------------------------------------------------------------------------
(* The elapsed time the pretty templates show.  An instant is given in        *)
(* milliseconds counted from 2024-01-01T00:00:00Z, a shift of the epoch that  *)
(* leaves every difference of two instants as it is.                          *)

\* new Date(ts).getTime(): NaN for a text that is no date.
getTime(ts) ==
    LET at(n) == [nan |-> FALSE, n |-> n] IN
    CASE ts = JStr("2024-01-01T09:59:59Z") -> at(35999000)
      [] ts = JStr("2024-01-01T10:00:00Z") -> at(36000000)
      [] ts = JStr("2024-01-01T10:00:00.001Z") -> at(36000001)
      [] ts = JStr("2024-01-01T10:00:00.999Z") -> at(36000999)
      [] ts = JStr("2024-01-01T10:00:01Z") -> at(36001000)
      [] ts = JStr("2024-01-01T10:00:59.999Z") -> at(36059999)
      [] ts = JStr("2024-01-01T10:01:00Z") -> at(36060000)
      [] ts = JStr("2024-01-01T10:59:59.999Z") -> at(39599999)
      [] ts = JStr("2024-01-01T11:00:00Z") -> at(39600000)
      [] ts = JStr("2024-01-01T12:30:00Z") -> at(45000000)
      [] OTHER -> [nan |-> TRUE, n |-> 0]

\* A unit that goes to hours for the lists as well.
formatDurationWithHours(start, end) ==
    LET ms == getTime(end).n - getTime(start).n
        shown(unit) == [color |-> "yellow", unit |-> unit, nan |-> FALSE, ms |-> ms,
                        suffix |-> ""]
    IN  IF ms < 1 THEN shown("<1ms")
        ELSE IF ms < 1000 THEN shown("ms")
        ELSE IF ms < 60000 THEN shown("s")
        ELSE IF ms < 3600000 THEN shown("m")
        ELSE shown("h")

\* formatDuration(start, end) of the run list and the job list: the text is the
\* number of `unit`s in ms, with two decimals from seconds upward.  Every
\* comparison with NaN is false.
formatDuration(start, end) ==
    LET nan == getTime(end).nan \/ getTime(start).nan
        ms == getTime(end).n - getTime(start).n
        shown(unit) == [color |-> "yellow", unit |-> unit, nan |-> nan,
                        ms |-> IF nan THEN 0 ELSE ms, suffix |-> ""]
    IN  IF ~nan /\ ms < 1 THEN shown("<1ms")
        ELSE IF ~nan /\ ms < 1000 THEN shown("ms")
        ELSE IF ~nan /\ ms < 60000 THEN shown("s")
        ELSE shown("m")

\* A run without an end that is not marked.
calculateDurationUnmarked(start, end, now) ==
    [color |-> "green", unit |-> "ms", nan |-> FALSE, ms |-> 0, suffix |-> ""]

\* calculateDuration(start, end) of the run status, Date.now() being `now`.
calculateDuration(start, end, now) ==
    IF ~JTruthy(start)
    THEN [color |-> "dim", unit |-> "not started", nan |-> FALSE, ms |-> 0, suffix |-> ""]
    ELSE LET endTime == IF JTruthy(end) THEN getTime(end) ELSE [nan |-> FALSE, n |-> now]
             nan == endTime.nan \/ getTime(start).nan
             ms == endTime.n - getTime(start).n
             isRunning == ~JTruthy(end)
             shown(unit) ==
                 [color |-> IF isRunning THEN "yellow" ELSE "green", unit |-> unit,
                  nan |-> nan, ms |-> IF nan THEN 0 ELSE ms,
                  suffix |-> IF isRunning THEN " (running)" ELSE ""]
         IN  IF ~nan /\ ms < 1000 THEN shown("ms")
             ELSE IF ~nan /\ ms < 60000 THEN shown("s")
             ELSE IF ~nan /\ ms < 3600000 THEN shown("m")
             ELSE shown("h")

\* The timestamps of a run or a job as the operations return them.
InitDuration ==
    LET Stamps ==
            {JUndef, JNull, JStr(""), JStr("soon"),
             JStr("2024-01-01T09:59:59Z"), JStr("2024-01-01T10:00:00Z"),
             JStr("2024-01-01T10:00:00.001Z"), JStr("2024-01-01T10:00:00.999Z"),
             JStr("2024-01-01T10:00:01Z"), JStr("2024-01-01T10:00:59.999Z"),
             JStr("2024-01-01T10:01:00Z"), JStr("2024-01-01T10:59:59.999Z"),
             JStr("2024-01-01T11:00:00Z"), JStr("2024-01-01T12:30:00Z")}
    IN  /\ pc = "printPretty"
        /\ tin \in [fn : {"printRunStatus", "printEventRuns", "printRunJobs"},
                     startedAt : Stamps, endedAt : Stamps, now : {45000000, 45000007}]
        /\ tout = [color |-> "", unit |-> "", nan |-> FALSE, ms |-> 0, suffix |-> ""]
        /\ argv = <<>>
        /\ flags = [GlobalFlagsInit EXCEPT !.pretty = TRUE]
        /\ positional = <<>>
        /\ call = NoCall
        /\ env = NoEnv
        /\ requests = <<>>
        /\ response = NoResponse
        /\ thrown = NoError
        /\ stdout = <<>>
        /\ stderr = <<>>
        /\ exitCode = -1
        /\ fileReads = <<>>
        /\ files = NoFiles

\* The duration printRunStatus shows, and the one a row of printEventRuns or of
\* printRunJobs shows: nothing when a timestamp of the row is missing.
PrintDuration ==
    /\ pc = "printPretty"
    /\ tout' = IF tin.fn = "printRunStatus"
               THEN calculateDuration(tin.startedAt, tin.endedAt, tin.now)
               ELSE IF JTruthy(tin.startedAt) /\ JTruthy(tin.endedAt)
               THEN formatDuration(tin.startedAt, tin.endedAt)
               ELSE [color |-> "", unit |-> "", nan |-> FALSE, ms |-> 0, suffix |-> ""]
    /\ pc' = "printed"
    /\ UNCHANGED <<argv, flags, positional, call, env, requests, response, thrown,
                   stdout, stderr, exitCode, fileReads, files, tin>>

SpecDuration == InitDuration /\ [][PrintDuration]_vars

----------------------------------------------------------------------------
(* sendEvent followed by getEvent of the id the server answered with, against *)
(* a server that stores what it was sent.                                     *)

InitRoundTrip ==
    LET Names == {"user.signup", "", "name with spaces/and:colons"}
        DataObjects ==
            {JObj(<<>>), EventData,
             JObj([id |-> JStr("inner-id"), name |-> JStr("inner-name"),
                   data |-> JObj([data |-> JNull]), received_at |-> JNum(0)]),
             JObj([list |-> JArr(<<JNum(1), JNull, JArr(<<>>), JObj(<<>>)>>),
                   empty |-> JStr(""), nested |-> JObj([a |-> JObj([b |-> JStr("c")])])]),
             JObj([receivedAt |-> JStr("never"), user |-> JObj([id |-> JNum(7)]),
                   ts |-> JNum(5)])}
    IN  /\ pc = "roundTripSend"
        /\ call \in {[NoCall EXCEPT !.op = "sendEvent", !.name = n, !.data = d,
                                    !.dedupeId = i, !.dev = dev] :
                        n \in Names, d \in DataObjects, i \in {Undefined, "dedupe-1"},
                        dev \in BOOLEAN}
        /\ env \in {e \in Envs : Truthy(e.eventKey) /\ Truthy(e.signingKey)}
        /\ flags = [GlobalFlagsInit EXCEPT !.dev = call.dev]
        /\ argv = <<>>
        /\ positional = <<>>
        /\ requests = <<>>
        /\ response = NoResponse
        /\ thrown = NoError
        /\ stdout = <<>>
        /\ stderr = <<>>
        /\ exitCode = -1
        /\ fileReads = <<>>
        /\ files = NoFiles
        /\ tin = [fn |-> "", input |-> <<>>, now |-> <<>>]
        /\ tout = TimeReturned(NoTime)

\* sendEvent: the event goes out, the server stores it and answers with its id.
RoundTripSend ==
    /\ pc = "roundTripSend"
    /\ requests' = <<sendEventFetch(call, env)>>
    /\ response' = Resp(200, "{\"ids\":[\"evt-new\"],\"status\":200}")
    /\ pc' = "roundTripGet"
    /\ UNCHANGED <<argv, flags, positional, call, env, thrown, stdout, stderr, exitCode,
                   fileReads, files, tin, tout>>

\* getEvent of the first id sendEvent returned: the server answers with the event
\* it stored under that id, in either spelling of its timestamp.
RoundTripGet ==
    /\ pc = "roundTripGet"
    /\ LET sent == sendEventSettle(response).value
           id == Get(sent, "ids").a[1].s
           stored == requests[1].body
       IN \E at \in {"received_at", "receivedAt"} :
            LET served ==
                    JObj([data |->
                        JObj([k \in {"id", "name", "data", at} |->
                                CASE k = "id" -> JStr(id)
                                  [] k = at -> JStr("2024-01-01T10:00:00Z")
                                  [] OTHER -> Get(stored, k)])])
                fetched == getEventReturn(Returned(served))
            IN /\ requests' = Append(requests,
                                     apiRequestFetch(createClient(call, env), "GET",
                                                     "/v1/events/" \o id, NoBody))
               /\ stdout' = <<JsonLine(fetched.value)>>
               /\ exitCode' = 0
               /\ pc' = "roundTripDone"
    /\ UNCHANGED <<argv, flags, positional, call, env, response, thrown, stderr,
                   fileReads, files, tin, tout>>

SpecRoundTrip == InitRoundTrip /\ [][RoundTripSend \/ RoundTripGet]_vars

----------------------------------------------------------------------------
(* The properties.  What an invocation was asked is read off its argument  *)
(* vector, environment and response; what it did, off its output, its exit *)
(* code and the requests it issued.                                        *)

Exited == pc = "exited"

ApiOps == {"getEvent", "getEventRuns", "listEvents", "getRun", "getRunJobs", "cancelRuns"}

\* The operation the handler chose has run up to its fetch or its failure.
OpRan(ops) == call.op \in ops /\ pc \in {"fetch", "write", "exited"}

\* The messages printError put on stderr.
ErrorMessages ==
    {IF stderr[i].kind = "error-pretty" THEN Tail(stderr[i].text) ELSE stderr[i].text :
        i \in {j \in DOMAIN stderr : stderr[j].kind \in {"error-pretty", "error-json"}}}

Answered2xx == response.kind = "response" /\ response.status \in 200..299
AnsweredNon2xx == response.kind = "response" /\ response.status \notin 200..299

\* The result reached the user: on stdout, or in the --output file.
ResultDelivered ==
    \/ \E i \in DOMAIN stdout : stdout[i].kind \in {"json", "pretty"}
    \/ files.written

\* --k was given a non-empty value, as "--k v" or "--k=v".
Supplied(k) ==
    \E i \in DOMAIN argv :
        /\ argv[i].dd /\ argv[i].key = k
        /\ \/ argv[i].eq /\ argv[i].val # ""
           \/ ~argv[i].eq /\ i < Len(argv) /\ ~argv[i + 1].dd

Command(c) == Len(positional) >= 1 /\ positional[1] = Word(c)
Subcommand(c, sub) == Command(c) /\ Len(positional) >= 2 /\ positional[2] = Word(sub)

RequiredMessages ==
    {"--name is required", "--data or --data-file is required", "Event ID is required",
     "Run ID is required", "--event is required", "--app is required",
     "--function is required", "--started-after is required", "--started-before is required"}

ValidationFailure ==
    \E m \in ErrorMessages :
        \/ m \in {<<r>> : r \in RequiredMessages}
        \/ m[Len(m)] = " must be valid JSON"
        \/ m[1] = "Invalid time format: "
        \/ m \in {SigningKeyMessage, EventKeyMessage}

UnknownCommand ==
    \E m \in ErrorMessages :
        m[1] \in {"Unknown command: ", "Unknown events subcommand: ", "Unknown runs subcommand: "}

NullPayload == Answered2xx /\ response.body \in {"{\"data\":null}", "{}"}

NotFoundLookup == call.op \in {"getEvent", "getRun"} /\ NullPayload

\* C1: the exit code is 1 whenever the invocation ends in a validation failure, a
\* non-2xx response, a not-found by-id lookup or an unknown command or subcommand,
\* and 0 whenever the request succeeds and its result is printed.
C1ExitCodes ==
    Exited =>
        /\ (ValidationFailure \/ AnsweredNon2xx \/ NotFoundLookup \/ UnknownCommand)
              => exitCode = 1
        /\ (Answered2xx /\ ResultDelivered) => exitCode = 0

C1Witness == Exited /\ AnsweredNon2xx /\ exitCode = 1 /\ thrown # NoError

\* The message of the first required argument the command line lacks, "" when it
\* lacks none.
FirstMissing ==
    IF Subcommand("events", "send")
    THEN IF ~Supplied("name") THEN "--name is required"
         ELSE IF ~Supplied("data") /\ ~Supplied("data-file")
         THEN "--data or --data-file is required"
         ELSE ""
    ELSE IF (Subcommand("events", "get") \/ Subcommand("events", "runs")) /\ Len(positional) = 2
    THEN "Event ID is required"
    ELSE IF (Subcommand("runs", "status") \/ Subcommand("runs", "get")) /\ Len(positional) = 2
    THEN "Run ID is required"
    ELSE IF Subcommand("runs", "list") /\ ~Supplied("event") THEN "--event is required"
    ELSE IF Command("cancel")
    THEN IF ~Supplied("app") THEN "--app is required"
         ELSE IF ~Supplied("function") THEN "--function is required"
         ELSE IF ~Supplied("started-after") THEN "--started-after is required"
         ELSE IF ~Supplied("started-before") THEN "--started-before is required"
         ELSE ""
    ELSE ""

\* C2: a command line that lacks a required argument never gets past its handler:
\* no request is issued and no data file is read, and the invocation ends with
\* exit code 1 having printed the message of the first missing argument and
\* nothing else.
C2FailFast ==
    FirstMissing # "" =>
        /\ requests = <<>>
        /\ fileReads = <<>>
        /\ pc \in {"handleEvents", "handleRuns", "handleCancel", "exited"}
        /\ Exited => /\ exitCode = 1
                     /\ stdout = <<>>
                     /\ Len(stderr) = 1
                     /\ ErrorMessages = {<<FirstMissing>>}

C2Witness ==
    Exited /\ FirstMissing = "--data or --data-file is required" /\ Supplied("name")
    /\ exitCode = 1

\* Both time values of the cancel request are ones parseTime accepts.
TimesParse ==
    /\ parseTime(Chars(call.startedAfter), Now1).ok
    /\ parseTime(Chars(call.startedBefore), Now1).ok

NoSigningKey == env.signingKey \in {Undefined, ""}

C4AtMostOneRequest ==
    /\ Len(requests) <= 1
    /\ response # NoResponse => pc \in {"write", "exited"}

C4Witness ==
    Exited /\ Len(requests) = 1 /\ (response = NetworkError \/ AnsweredNon2xx)
    /\ exitCode = 1

\* The text after the status code: the server's `error` when the body is a JSON
\* object whose `error` is a string, the raw body otherwise.
ErrorStringOrBody(body) ==
    LET parsed == JsonParse(body) IN
    IF parsed.t = "object" /\ Get(parsed, "error").t = "string"
    THEN Get(parsed, "error").s
    ELSE body

\* The same with the test the code makes: the `error` value when it is truthy.
TruthyErrorOrBody(body) ==
    LET parsed == JsonParse(body) IN
    IF parsed.t = "object" /\ JTruthy(Get(parsed, "error"))
    THEN IF Get(parsed, "error").t = "string" THEN Get(parsed, "error").s
         ELSE ToStr(Get(parsed, "error"))
    ELSE body

FailedWith(detail) ==
    /\ thrown = Err("Error", <<"API request failed (", ToString(response.status), "): ", detail>>)
    /\ ErrorMessages = {thrown.message}
    /\ stdout = <<>>
    /\ ~ResultDelivered
    /\ exitCode = 1

\* C5, as amended: on a non-2xx status apiRequest fails with the status code
\* followed by the `error` value of the body when the body is a JSON object whose
\* `error` is truthy, and by the raw body otherwise; nothing is returned.
C5ErrorSurfaced ==
    (Exited /\ call.op \in ApiOps /\ AnsweredNon2xx) =>
        FailedWith(TruthyErrorOrBody(response.body))

C5Witness ==
    Exited /\ call.op \in ApiOps /\ response = Resp(404, "{\"error\":\"boom\"}")
    /\ thrown.message[4] = "boom"

\* C5, as stated: the `error` is shown exactly when it is a string.
C5StringErrorSurfaced ==
    (Exited /\ call.op \in ApiOps /\ AnsweredNon2xx) =>
        FailedWith(ErrorStringOrBody(response.body))

\* C6: a by-id lookup (`events get`, `runs status`) answered 2xx with a null or
\* absent `data` fails with an explicit not-found error naming the requested id,
\* not with an incidental runtime error, and the invocation exits 1.
C6ExplicitNotFound ==
    (Exited /\ NotFoundLookup) =>
        /\ exitCode = 1
        /\ thrown.name = "Error"
        /\ \E i \in DOMAIN thrown.message : thrown.message[i] = call.id
        /\ \E what \in {"Event", "Run"} : thrown.message[1] = what \o " not found: "

\* The request an API query issued carries no Authorization header.
SentWithoutAuthorization ==
    /\ Len(requests) = 1
    /\ requests[1].by = "apiRequest"
    /\ "Authorization" \notin DOMAIN requests[1].headers

\* Every request of apiRequest carries the signing key when there is one.
BearerWhenKeyed ==
    \A i \in DOMAIN requests :
        (requests[i].by = "apiRequest" /\ ~NoSigningKey) =>
            /\ "Authorization" \in DOMAIN requests[i].headers
            /\ requests[i].headers["Authorization"] = "Bearer " \o env.signingKey

\* C7, as amended: in dev mode without a signing key an API query whose arguments
\* are accepted is still sent, without an Authorization header, never fails for
\* the missing key, and exits 0 once a 2xx response has given a result that is
\* printed; with a signing key, in either mode, the request carries
\* `Authorization: Bearer <signing key>`.
C7DevNeedsNoKey ==
    /\ (OpRan(ApiOps) /\ flags.dev /\ NoSigningKey /\ (call.op # "cancelRuns" \/ TimesParse))
          => /\ SentWithoutAuthorization
             /\ SigningKeyMessage \notin ErrorMessages
             /\ (Exited /\ Answered2xx /\ ResultDelivered) => exitCode = 0
    /\ BearerWhenKeyed

C7Witness ==
    Exited /\ call.op \in ApiOps /\ flags.dev /\ NoSigningKey /\ SentWithoutAuthorization
    /\ Answered2xx /\ exitCode = 0

\* C7, as stated: the request is sent and every 2xx response ends in exit code 0.
C7DevExitsZeroOn2xx ==
    /\ (OpRan(ApiOps) /\ flags.dev /\ NoSigningKey)
          => /\ SentWithoutAuthorization
             /\ (Exited /\ Answered2xx) => exitCode = 0
    /\ BearerWhenKeyed

\* The base URL in dev mode: the environment override with one trailing slash
\* removed, else the port given, else the default port.
ResolvedDevBase ==
    IF env.devUrl \notin {Undefined, ""}
    THEN CASE env.devUrl = "http://dev:9000/" -> "http://dev:9000"
           [] env.devUrl = "http://dev:9000//" -> "http://dev:9000/"
    ELSE IF flags.port # Undefined THEN "http://localhost:" \o flags.port
    ELSE "http://localhost:8288"

\* C8: outside dev mode `events send` without an event key fails naming
\* INNGEST_EVENT_KEY before any request; in dev mode without an event key the event
\* is sent to the gateway with the key "test", whatever the signing key.
C8EventKey ==
    /\ (OpRan({"sendEvent"}) /\ ~flags.dev /\ env.eventKey \in {Undefined, ""})
          => /\ requests = <<>>
             /\ Exited /\ exitCode = 1
             /\ ErrorMessages = {EventKeyMessage}
    /\ (OpRan({"sendEvent"}) /\ flags.dev /\ env.eventKey = Undefined)
          => /\ Len(requests) = 1
             /\ requests[1].url = ResolvedDevBase \o "/e/test"
             /\ ErrorMessages \cap {EventKeyMessage, SigningKeyMessage} = {}

C8Witness ==
    /\ OpRan({"sendEvent"}) /\ flags.dev /\ env.eventKey = Undefined /\ NoSigningKey
    /\ Len(requests) = 1 /\ Exited /\ exitCode = 0

\* The path each API operation asks for.
PathOf(options) ==
    CASE options.op = "getEvent" -> "/v1/events/" \o options.id
      [] options.op = "getEventRuns" -> "/v1/events/" \o options.id \o "/runs"
      [] options.op = "listEvents" -> listEventsPath(options)
      [] options.op = "getRun" -> "/v1/runs/" \o options.id
      [] options.op = "getRunJobs" -> "/v1/runs/" \o options.id \o "/jobs"
      [] options.op = "cancelRuns" -> "/v1/cancellations"

\* C9: every request goes to the resolved base URL: https://api.inngest.com outside
\* dev mode whatever --port and INNGEST_DEV_URL are; in dev mode INNGEST_DEV_URL
\* less one trailing slash, else http://localhost:<port>, else
\* http://localhost:8288.  Events go to https://inn.gs/e/<event key> outside dev
\* mode and to <dev base>/e/<key> in dev mode.
C9BaseUrl ==
    \A i \in DOMAIN requests :
        requests[i].url =
            IF requests[i].by = "sendEvent"
            THEN IF flags.dev
                 THEN ResolvedDevBase \o "/e/"
                      \o (IF env.eventKey \in {Undefined, ""} THEN "test" ELSE env.eventKey)
                 ELSE "https://inn.gs/e/" \o env.eventKey
            ELSE (IF flags.dev THEN ResolvedDevBase ELSE "https://api.inngest.com")
                 \o PathOf(call)

C9Witness ==
    /\ Len(requests) = 1 /\ flags.dev /\ flags.port = "9000"
    /\ env.devUrl = "http://dev:9000//"
    /\ requests[1].url = "http://dev:9000//v1/cancellations"

\* An input of the form <n><unit>: decimal digits, then one of s, m, h, d.
IsRelativeTime(input) ==
    /\ Len(input) >= 2
    /\ input[Len(input)] \in {"s", "m", "h", "d"}
    /\ \A i \in 1..(Len(input) - 1) : input[i] \in Digits

\* The milliseconds of <n><unit>.
DurationMs(input) ==
    LET n == Norm([i \in 1..(Len(input) - 1) |-> DigitValue(input[i])])
        unit == input[Len(input)]
    IN  Mul(n, CASE unit = "s" -> 1000
                 [] unit = "m" -> 60000
                 [] unit = "h" -> 3600000
                 [] unit = "d" -> 86400000)

\* An ISO-8601 literal: a calendar date in the extended format, alone or followed
\* by "T" and a time, or a calendar date in the basic format.
IsDigitsAt(input, S) == \A i \in S : input[i] \in Digits
IsIsoExtended(input) ==
    /\ Len(input) >= 10
    /\ IsDigitsAt(input, {1, 2, 3, 4, 6, 7, 9, 10})
    /\ input[5] = "-" /\ input[8] = "-"
    /\ Len(input) = 10 \/ input[11] = "T"
IsIsoBasic(input) == Len(input) = 8 /\ IsDigitsAt(input, 1..8)

\* now - n * unit is an instant a Date can hold.
WithinDateRange(input, now) == Leq(Minus(now, DurationMs(input)).mag, MaxDateMs)

ParseTimeReturned == pc = "returned" /\ tin.fn = "parseTime"

TimeArgs == {Chars(call.startedAfter), Chars(call.startedBefore)}

\* A time value that is neither an ISO-8601 literal nor <integer><s|m|h|d>.
Unrecognized(input) ==
    ~IsRelativeTime(input) /\ ~IsIsoExtended(input) /\ ~IsIsoBasic(input)

\* C11: a cancel whose --started-after or --started-before value is neither an
\* ISO-8601 literal nor <integer><s|m|h|d> ends with exit code 1 and an
\* "Invalid time format" error, and no cancellation request is sent.
C11UnrecognizedTimeRejected ==
    (OpRan({"cancelRuns"}) /\ \E t \in TimeArgs : Unrecognized(t)) =>
        /\ requests = <<>>
        /\ Exited /\ exitCode = 1
        /\ \E m \in ErrorMessages : m[1] = "Invalid time format: "

\* The cancel example of the usage text and the README.
DocumentedCancel ==
    positional = <<Word("cancel"), Flag("app"), Word("my-app"), Flag("function"),
                   Word("my-func"), Flag("started-after"), Word("1h"),
                   Flag("started-before"), Word("now")>>

\* C12: the documented example `cancel --app my-app --function my-func
\* --started-after 1h --started-before now` is accepted: with a signing key set
\* exactly one POST /v1/cancellations is sent, with started_after one hour before
\* the present instant and started_before at the present instant.
C12DocumentedExampleAccepted ==
    (DocumentedCancel /\ OpRan({"cancelRuns"}) /\ ~NoSigningKey) =>
        /\ Len(requests) = 1
        /\ requests[1].method = "POST"
        /\ requests[1].url =
               (IF flags.dev THEN ResolvedDevBase ELSE "https://api.inngest.com")
               \o "/v1/cancellations"
        /\ Get(requests[1].body, "started_after") =
               TimeJson(TimeIso(Minus(tin.now, DurationMs(<<"1", "h">>))))
        /\ \E now \in {Now1, Now2} :
               Get(requests[1].body, "started_before") = TimeJson(TimeIso([neg |-> FALSE, mag |-> now]))

\* The invocations that end with the usage text alone: no command at all, or
\* `events` or `runs` without a subcommand.
UsageOnly ==
    \/ positional = <<>>
    \/ Len(positional) = 1 /\ positional[1] \in {Word("events"), Word("runs")}

\* The write of the --output file failed after the result was returned.
OutputWriteFailed == files.path # Undefined /\ ~files.pending /\ ~files.written

\* Exactly one line on stderr, written by printError in the form the flags ask for.
OneErrorLine ==
    /\ Len(stderr) = 1
    /\ ErrorMessages # {<<>>}
    /\ IF flags.pretty
       THEN stderr[1].kind = "error-pretty" /\ stderr[1].text[1] = "Error:"
       ELSE stderr[1].kind = "error-json"

\* C13, as amended: an invocation that exits with code 1 has written exactly one
\* error through printError, as {"error": <message>} without --pretty and as
\* "Error: <message>" with it, except when it was given no command or `events` or
\* `runs` without a subcommand, where it prints the usage text and nothing on
\* stderr, and when the write of the --output file fails, where the only report
\* is the runtime's for the unhandled rejection.
C13ErrorPrinted ==
    (Exited /\ exitCode = 1) =>
        IF UsageOnly THEN stderr = <<>> /\ Len(stdout) = 1 /\ stdout[1].kind = "usage"
        ELSE IF OutputWriteFailed
        THEN Len(stderr) = 1 /\ stderr[1].kind = "unhandled-rejection"
        ELSE OneErrorLine

C13Witness ==
    Exited /\ exitCode = 1 /\ flags.pretty /\ ~UsageOnly /\ ~OutputWriteFailed
    /\ OneErrorLine /\ Len(requests) = 1

\* C13, as stated: every invocation that exits with code 1 has written its error
\* through printError.
C13EveryFailurePrinted == (Exited /\ exitCode = 1) => OneErrorLine

\* The words main and the two handlers know, and the error each prints for a
\* word it does not know.
KnownWords ==
    [main   |-> {"events", "runs", "cancel", "help", "--help", "-h", "version", "--version", "-v"},
     events |-> {"send", "get", "runs", "list", "help", "--help", "-h"},
     runs   |-> {"get", "list", "status", "help", "--help", "-h"}]

UnknownPrefix ==
    [main |-> "Unknown command: ", events |-> "Unknown events subcommand: ",
     runs |-> "Unknown runs subcommand: "]

\* The word at this level of the command line is not one the level knows.
UnknownWordAt(level) ==
    IF level = "main"
    THEN Len(positional) >= 1 /\ Text(positional[1]) \notin KnownWords.main
    ELSE Command(level) /\ Len(positional) >= 2 /\ Text(positional[2]) \notin KnownWords[level]

UnknownWord(level) == Text(positional[IF level = "main" THEN 1 ELSE 2])

\* C14: an unknown top-level command, or an unknown subcommand of `events` or
\* `runs`, sends no request and ends with exit code 1, the usage text of its
\* level on stdout and one error on stderr: "Unknown command: <word>",
\* "Unknown events subcommand: <word>" or "Unknown runs subcommand: <word>".
C14UnknownCommand ==
    \A level \in {"main", "events", "runs"} :
        UnknownWordAt(level) =>
            /\ requests = <<>>
            /\ pc \in {"handleEvents", "handleRuns", "exited"}
            /\ Exited => /\ exitCode = 1
                         /\ stdout = <<UsageLine(level)>>
                         /\ Len(stderr) = 1
                         /\ ErrorMessages = {<<UnknownPrefix[level], UnknownWord(level)>>}

C14Witness ==
    /\ Exited /\ UnknownWordAt("events") /\ UnknownWord("events") = "--version"
    /\ exitCode = 1 /\ Len(stderr) = 1 /\ stdout = <<UsageLine("events")>>

\* The command line asks for help or for the version: one of the six words is the
\* first word, or the word after `events`, `runs` or `cancel`.
HelpOrVersionAsked ==
    LET asks(i) ==
            /\ Len(positional) >= i
            /\ Text(positional[i]) \in {"--help", "-h", "help", "--version", "-v", "version"}
    IN  \/ asks(1)
        \/ (Command("events") \/ Command("runs") \/ Command("cancel")) /\ asks(2)

\* C15: a help or version request, at top level or after a command, is terminal
\* and always succeeds: no request is sent, nothing runs past the handler, and the
\* invocation ends with exit code 0 having printed the help or version text.
C15HelpAlwaysSucceeds ==
    HelpOrVersionAsked =>
        /\ requests = <<>>
        /\ pc \in {"handleEvents", "handleRuns", "handleCancel", "exited"}
        /\ Exited => /\ exitCode = 0
                     /\ stderr = <<>>
                     /\ Len(stdout) = 1 /\ stdout[1].kind \in {"usage", "text"}

\* C16: `--version` prints exactly "0.2.0" on stdout and exits with code 0.
C16VersionText ==
    (Exited /\ positional = <<Flag("version")>>) =>
        /\ exitCode = 0
        /\ stdout = <<TextLine(<<"0.2.0">>)>>
        /\ stderr = <<>>

\* `events send` got past its required-argument checks.
SendAccepted == Subcommand("events", "send") /\ FirstMissing = ""

\* The value --k was given on the command line.
ValueOf(k) ==
    LET i == CHOOSE j \in DOMAIN argv : argv[j].dd /\ argv[j].key = k
    IN  IF argv[i].eq THEN argv[i].val ELSE argv[i + 1].key

\* C17: `events send` whose event data is not valid JSON exits with code 1 without
\* sending a request; the message is "--data-file (<path>) must be valid JSON"
\* whenever --data-file is given, the file missing and --data given as well
\* included, and "--data must be valid JSON" otherwise.
C17InvalidData ==
    /\ (SendAccepted /\ Supplied("data-file") /\ fileReads # <<>>
         /\ (fileReads[1].text = FileMissing \/ JsonParse(fileReads[1].text) = SyntaxError))
          => /\ requests = <<>>
             /\ Exited /\ exitCode = 1
             /\ stdout = <<>>
             /\ ErrorMessages = {<<"--data-file (" \o fileReads[1].path \o ")",
                                   " must be valid JSON">>}
             /\ Len(fileReads) = 1 /\ fileReads[1].path = "/tmp/event.json"
    /\ (SendAccepted /\ ~Supplied("data-file") /\ Supplied("data")
         /\ JsonParse(ValueOf("data")) = SyntaxError)
          => /\ requests = <<>>
             /\ fileReads = <<>>
             /\ pc \in {"handleEvents", "exited"}
             /\ Exited => /\ exitCode = 1
                          /\ stdout = <<>>
                          /\ ErrorMessages = {<<"--data", " must be valid JSON">>}

C17Witness ==
    /\ Exited /\ SendAccepted /\ Supplied("data-file") /\ Supplied("data")
    /\ fileReads = <<[path |-> "/tmp/event.json", text |-> FileMissing]>>
    /\ exitCode = 1 /\ requests = <<>>

\* The operation returned this result to its handler, which called printOutput.
ResultReturned == response # NoResponse /\ Settle(call, response).ok
Result == Settle(call, response).value

\* Deep equality of two values that takes a property whose value is undefined for
\* an absent one.
RECURSIVE SameValue(_, _)
SameValue(a, b) ==
    IF a.t # b.t THEN FALSE
    ELSE IF a.t = "object"
    THEN \A k \in DOMAIN a.o \cup DOMAIN b.o : SameValue(Get(a, k), Get(b, k))
    ELSE IF a.t = "array"
    THEN Len(a.a) = Len(b.a) /\ \A i \in 1..Len(a.a) : SameValue(a.a[i], b.a[i])
    ELSE a = b

\* The lines on stdout that carry the result.
ResultLines(kinds) == {i \in DOMAIN stdout : stdout[i].kind \in kinds}

\* C18: printOutput does exactly one of three things.  With --output, --pretty or
\* not, the JSON of the result is written to that file and stdout gets the line
\* "Output written to <path>" and nothing else.  Otherwise with --pretty the text
\* template of the result is printed and no JSON line.  Otherwise stdout gets one
\* line of JSON that parses back to the result (a property whose value is
\* undefined counting as absent).
C18OutputModes ==
    (ResultReturned /\ pc \in {"write", "exited"}) =>
        IF Truthy(flags.output)
        THEN /\ stdout = <<TextLine(<<"Output written to ", flags.output>>)>>
             /\ files.path = flags.output
             /\ files.pending \/ files.written \/ OutputWriteFailed
             /\ SameValue(files.content, Result)
        ELSE /\ files = NoFiles
             /\ Len(stdout) = 1
             /\ IF flags.pretty
                THEN /\ stdout[1].kind \in {"pretty", "pretty-partial"}
                     /\ stdout[1].template = PrettyTemplate(Result)
                     /\ stdout[1].value = Result
                ELSE /\ stdout[1].kind = "json"
                     /\ SameValue(stdout[1].value, Result)
                     /\ exitCode = 0

C18Witness ==
    /\ Exited /\ ResultReturned /\ flags.pretty /\ flags.output = "out.json"
    /\ files.written /\ files.content # Result /\ exitCode = 0
    /\ ResultLines({"json", "pretty", "pretty-partial"}) = {}

\* C19: round trip.  Against a server that stores each event it is sent and
\* returns it under the id it answered with, sending name N and data D and then
\* fetching the returned id gives an event whose name is N and whose data is
\* structurally equal to D, for every N and every JSON object D.
C19RoundTrip ==
    pc = "roundTripDone" =>
        LET got == stdout[1].value IN
        /\ Get(got, "name") = JStr(call.name)
        /\ Get(got, "data") = call.data
        /\ Get(got, "id") = JStr("evt-new")

C19Witness ==
    /\ pc = "roundTripDone" /\ Len(requests) = 2
    /\ requests[2].method = "GET"
    /\ Get(call.data, "name") = JStr("inner-name") /\ call.name = ""
    /\ Get(Get(stdout[1].value, "data"), "id") = JStr("inner-id")

\* What the operation returns for this 200 response.
ResultOf(body) == Settle(call, Resp(200, body)).value

\* The response spells its renamed fields in camelCase, and the operation's
\* result is the one it gives for the same response in snake_case.
SameAsSnake(op) ==
    CASE op = "getEvent" ->
            response.body = "{\"data\":<eventCamel>}" => Result = ResultOf("{\"data\":<event>}")
      [] op = "listEvents" ->
            normalizeEventList(JArr(<<RawEvent("camel")>>))
                = normalizeEventList(JArr(<<RawEvent("snake")>>))
      [] op = "getEventRuns" ->
            response.body = "{\"data\":[<runCamel>]}"
                => Result.a[1] = ResultOf("{\"data\":[<runCompleted>,<runRunning>]}").a[1]
      [] op = "getRun" ->
            response.body = "{\"data\":<runCamel>}"
                => Result = ResultOf("{\"data\":<runCompleted>}")
      [] op = "getRunJobs" ->
            response.body = "{\"data\":[<job>,<jobCamel>]}" => Result.a[2] = Result.a[1]

NormalizingOps == {"getEvent", "listEvents", "getEventRuns", "getRun", "getRunJobs"}

\* C20: every response-normalizing operation (get event, list events, get event
\* runs, get run, get run jobs) gives for a response in camelCase the same
\* normalized result as for the same response in snake_case.
C20BothConventions ==
    (ResultReturned /\ pc \in {"write", "exited"} /\ call.op \in NormalizingOps)
        => SameAsSnake(call.op)

\* A template has printed the duration of a run or of a row.
DurationPrinted(fns) == pc = "printed" /\ tin.fn \in fns

\* The run or row has this timestamp: it is neither absent, null nor empty.
HasStamp(ts) == ts \notin {JUndef, JNull, JStr("")}

\* C21, as amended: the pretty run status shows "(running)" exactly for a run that
\* has a start timestamp and no end timestamp; a run with no start timestamp
\* shows "not started" and no "(running)", whether it has ended or not.
C21RunningMarked ==
    DurationPrinted({"printRunStatus"}) =>
        /\ tout.suffix = " (running)" <=> (HasStamp(tin.startedAt) /\ ~HasStamp(tin.endedAt))
        /\ tout.suffix \in {" (running)", ""}
        /\ ~HasStamp(tin.startedAt) <=> tout.unit = "not started"

C21Witness ==
    /\ DurationPrinted({"printRunStatus"})
    /\ tin.startedAt = JStr("2024-01-01T10:00:00Z") /\ tin.endedAt = JNull
    /\ tout.suffix = " (running)" /\ tout.unit = "h" /\ tout.ms = 9000000

\* C21, as stated: "(running)" is shown for every run that has no end timestamp,
\* and for no run that has one.
C21EveryOpenRunMarked ==
    DurationPrinted({"printRunStatus"}) =>
        (tout.suffix = " (running)" <=> ~HasStamp(tin.endedAt))

\* Both timestamps are dates, and the milliseconds from the start to the end.
BothDates ==
    /\ HasStamp(tin.startedAt) /\ HasStamp(tin.endedAt)
    /\ ~getTime(tin.startedAt).nan /\ ~getTime(tin.endedAt).nan
ElapsedMs == getTime(tin.endedAt).n - getTime(tin.startedAt).n

\* C22, as amended: between two timestamps the run status shows the duration in
\* ms below 1000 ms, in s below 60000, in m below 3600000 and in h from there
\* upward; the run list and the job list show "<1ms" below 1 ms, ms below 1000,
\* s below 60000 and m from there upward, with no hours.
C22DurationUnit ==
    (DurationPrinted({"printRunStatus", "printEventRuns", "printRunJobs"}) /\ BothDates) =>
        /\ tout.ms = ElapsedMs /\ ~tout.nan
        /\ tout.unit =
              IF tin.fn = "printRunStatus"
              THEN IF ElapsedMs < 1000 THEN "ms"
                   ELSE IF ElapsedMs < 60000 THEN "s"
                   ELSE IF ElapsedMs < 3600000 THEN "m"
                   ELSE "h"
              ELSE IF ElapsedMs < 1 THEN "<1ms"
                   ELSE IF ElapsedMs < 1000 THEN "ms"
                   ELSE IF ElapsedMs < 60000 THEN "s"
                   ELSE "m"

C22Witness ==
    /\ DurationPrinted({"printRunJobs"}) /\ BothDates
    /\ ElapsedMs = 9000000 /\ tout.unit = "m" /\ tout.ms = 9000000

\* C22, as stated: every template shows the duration in ms below 1000, in s
\* below 60000, in m below 3600000 and in h from 3600000 upward.
C22SameUnitEverywhere ==
    (DurationPrinted({"printRunStatus", "printEventRuns", "printRunJobs"}) /\ BothDates) =>
        tout.unit = IF ElapsedMs < 1000 THEN "ms"
                    ELSE IF ElapsedMs < 60000 THEN "s"
                    ELSE IF ElapsedMs < 3600000 THEN "m"
                    ELSE "h"

\* The template that belongs to each operation.
TemplateOf ==
    [sendEvent |-> "printEventResult", listEvents |-> "printEventList",
     getEvent |-> "printEventDetails", getEventRuns |-> "printEventRuns",
     getRun |-> "printRunStatus", getRunJobs |-> "printRunJobs",
     cancelRuns |-> "printCancelResult"]

\* A result was printed in pretty mode.
PrettyPrinted ==
    /\ Exited /\ ResultReturned /\ flags.pretty /\ ~Truthy(flags.output)
    /\ Len(stdout) = 1

\* C23: in pretty mode every result is rendered with the template of the
\* operation that produced it, empty lists included: an empty job list with the
\* template of the job list ("No jobs found for this run"), an empty run list
\* with the template of the run list ("No runs found for this event").  For
\* cancelRuns the results taken are those that carry the `cancelled` count.
C23TemplateOfOperation ==
    (PrettyPrinted /\ (call.op = "cancelRuns" => Has(Result, "cancelled"))) =>
        stdout[1].template = TemplateOf[call.op]

\* The command line holds `--key value` at i: a flag without "=", and a token
\* after it.  The pair is plain when the value does not begin with "--", the key
\* is not a switch, and the flag is not itself the value of a --port or --output
\* before it.
Switches == {"pretty", "dev", "help", "version"}
PairAt(i) == i < Len(argv) /\ argv[i].dd /\ ~argv[i].eq /\ argv[i].key \notin Switches
PlainPairAt(i) ==
    /\ PairAt(i)
    /\ ~argv[i + 1].dd
    /\ i = 1 \/ argv[i - 1] \notin {Flag("port"), Flag("output")}

\* The same command line with the pair at i written `--key=value`.
EqualsForm(i) ==
    SubSeq(argv, 1, i - 1) \o <<FlagEq(argv[i].key, Text(argv[i + 1]))>>
        \o SubSeq(argv, i + 2, Len(argv))

\* What the two parsers make of a command line: the global flags, the positional
\* tokens, and the named arguments of the command's handler.
Parsed(args) ==
    LET p == parseGlobalFlags(args) IN
    [flags |-> p.flags,
     tokens |-> Len(p.positional),
     named |-> parseNamedArgs(IF First(p.positional) = "cancel" THEN Rest(p.positional)
                              ELSE Rest(Rest(p.positional)))]

\* C24, as amended: for every key that takes a value and every value
\* that does not begin with "--", the command line with `--key value` and the one
\* with `--key=value` are parsed to the same global flags and the same named
\* arguments; the positional tokens are the same for --port and --output, and
\* for every other key hold the flag as one token in place of two.
C24FlagForms ==
    pc # "main" =>
        /\ flags = Parsed(argv).flags /\ Len(positional) = Parsed(argv).tokens
        /\ \A i \in DOMAIN argv :
              PlainPairAt(i) =>
                  /\ Parsed(EqualsForm(i)).flags = flags
                  /\ Parsed(EqualsForm(i)).named = Parsed(argv).named
                  /\ Parsed(EqualsForm(i)).tokens =
                        IF argv[i].key \in {"port", "output"} THEN Len(positional)
                        ELSE Len(positional) - 1

C24Witness ==
    /\ Exited /\ Subcommand("runs", "list")
    /\ \E i \in DOMAIN argv : PlainPairAt(i) /\ argv[i].key = "event"
    /\ \E i \in DOMAIN argv : PlainPairAt(i) /\ argv[i].key = "port"
    /\ Parsed(argv).named = [event |-> "evt-1"] /\ flags.port = "9000"

\* C24, as stated: for every key that takes a value and every value string, one
\* that begins with "--" included, the two forms are parsed to the same global
\* flags and named arguments.
C24EveryValue ==
    pc # "main" =>
        \A i \in DOMAIN argv :
            PairAt(i) =>
                /\ Parsed(EqualsForm(i)).flags = flags
                /\ Parsed(EqualsForm(i)).named = Parsed(argv).named

\* The texts of a request: its URL, its header names and values, and every key
\* and string of its body.
RECURSIVE StringsOf(_)
StringsOf(v) ==
    CASE v.t = "string" -> {v.s}
      [] v.t = "object" -> DOMAIN v.o \cup UNION {StringsOf(v.o[k]) : k \in DOMAIN v.o}
      [] v.t = "array" -> UNION {StringsOf(v.a[i]) : i \in DOMAIN v.a}
      [] OTHER -> {}
RequestTexts(r) ==
    DOMAIN r.headers \cup {r.headers[h] : h \in DOMAIN r.headers} \cup StringsOf(r.body)
Contains(s, k) ==
    \E i \in 1..(Len(s) - Len(k) + 1) : SubSeq(s, i, i + Len(k) - 1) = k
Mentions(r, key) ==
    Truthy(key) /\ \E s \in RequestTexts(r) \cup {r.url} : Contains(s, key)

\* The URL is <base>/e/<key>, and the key is nowhere in the base.
KeyInPathOnly(url, key) ==
    LET tail == "/e/" \o key
        base == SubSeq(url, 1, Len(url) - Len(tail))
    IN  /\ Len(url) > Len(tail) /\ url = base \o tail
        /\ ~Contains(base, key)

\* C25: the request of sendEvent has no Authorization header and holds the
\* signing key nowhere, and holds the event key in its URL path /e/<key> and
\* nowhere else; a request of apiRequest holds the event key nowhere.
C25CredentialsApart ==
    \A i \in DOMAIN requests :
        LET r == requests[i] IN
        /\ r.by = "sendEvent" =>
              /\ "Authorization" \notin DOMAIN r.headers
              /\ ~Mentions(r, env.signingKey)
              /\ Truthy(env.eventKey) =>
                    /\ KeyInPathOnly(r.url, env.eventKey)
                    /\ \A s \in RequestTexts(r) : ~Contains(s, env.eventKey)
        /\ r.by = "apiRequest" => ~Mentions(r, env.eventKey)

C25Witness ==
    /\ Exited /\ exitCode = 0 /\ Len(requests) = 1
    /\ requests[1].by = "sendEvent"
    /\ env.signingKey = "signkey-prod" /\ env.eventKey = "evtkey-prod"
    /\ Contains(requests[1].url, "/e/evtkey-prod")

\* The confirmation line of --output is on stdout.
ConfirmationPrinted ==
    \E i \in DOMAIN stdout : stdout[i] = TextLine(<<"Output written to ", flags.output>>)

\* C26: "Output written to <path>" is on stdout only when the write of the result
\* to that path has completed and succeeded: never while the write is pending,
\* and never after it has failed.
C26ConfirmedAfterWrite ==
    ConfirmationPrinted =>
        /\ files.path = flags.output
        /\ ~files.pending
        /\ files.written

\* C27: the tool writes one file at most, the one named by --output, and only
\* after its operation returned a result: what is written is the JSON text of
\* that result, and an invocation that exits with code 1 has written nothing.
C27WrittenOnSuccessOnly ==
    /\ (Exited /\ exitCode = 1) => ~files.written
    /\ (files.pending \/ files.written) =>
          /\ Truthy(flags.output) /\ files.path = flags.output
          /\ Len(requests) >= 1 /\ Settle(call, response).ok
          /\ files.content = Stringify(Settle(call, response).value)
          /\ stderr = <<>>
    /\ files.path # Undefined => files.path = flags.output

C27Witness ==
    /\ Exited /\ exitCode = 1 /\ Truthy(flags.output)
    /\ Len(requests) >= 1 /\ ~Settle(call, response).ok
    /\ files = NoFiles

\* The cancellation requests, and the two bounds of one.  A bound resolved from a
\* relative duration is an instant in milliseconds; instant a is later than b.
IsCancellation(r) == r.method = "POST" /\ Contains(r.url, "/v1/cancellations")
After(r) == Get(r.body, "started_after")
Before(r) == Get(r.body, "started_before")
Resolved(t) == "ms" \in DOMAIN t
Later(a, b) ==
    IF a.neg = b.neg THEN (IF a.neg THEN ~Leq(b.ms, a.ms) ELSE ~Leq(a.ms, b.ms))
    ELSE b.neg
Inverted(r) ==
    Resolved(After(r)) /\ Resolved(Before(r)) /\ Later(After(r), Before(r))

GlobalFlagKeys == Switches \cup {"port", "output"}
EventsRunsForm ==
    /\ Len(argv) >= 3 /\ argv[1] = Word("events") /\ argv[2] = Word("runs")
    /\ argv[3].dd => argv[3].key \notin GlobalFlagKeys
RunsListForm ==
    /\ Len(argv) >= 3 /\ argv[1] = Word("runs") /\ argv[2] = Word("list")
    /\ argv[3].dd /\ argv[3].key = "event"
    /\ argv[3].eq \/ (Len(argv) >= 4 /\ (argv[4].dd => argv[4].key \notin GlobalFlagKeys))
TheId ==
    IF EventsRunsForm THEN Text(argv[3])
    ELSE IF argv[3].eq THEN argv[3].val ELSE Text(argv[4])
OrdinaryId == TheId # "" /\ (Len(TheId) >= 2 => SubSeq(TheId, 1, 2) # "--")

\* What an invocation that asks for the runs of event id leaves behind, as a
\* function of the id, the global flags, the environment, the response and the
\* fate of the write, and of nothing else.
RunsOfEvent(id) ==
    LET client == createClient([dev |-> flags.dev, port |-> flags.port], env)
        r == getEventRunsSettle(id, response)
        failed(e) == /\ stdout = <<>> /\ exitCode = 1 /\ files = NoFiles
                     /\ stderr = <<printError(e.message, flags.pretty)>>
    IN
    IF apiRequestNeedsKey(client)
    THEN requests = <<>> /\ failed(Err("Error", SigningKeyMessage))
    ELSE /\ requests = <<apiRequestFetch(client, "GET", "/v1/events/" \o id \o "/runs", NoBody)>>
         /\ IF ~r.ok THEN failed(r.error)
            ELSE IF Truthy(flags.output)
            THEN /\ stdout = <<TextLine(<<"Output written to ", flags.output>>)>>
                 /\ files.path = flags.output /\ files.content = Stringify(r.value)
                 /\ IF files.written THEN stderr = <<>> /\ exitCode = 0
                    ELSE Len(stderr) = 1 /\ stderr[1].kind = "unhandled-rejection"
                         /\ exitCode = 1
            ELSE IF flags.pretty /\ PrettyThrows(r.value)
            THEN /\ stdout = <<PrettyPartialLine(r.value)>> /\ exitCode = 1
                 /\ stderr = <<printError(TypeErrorOf("formatter").message, TRUE)>>
            ELSE /\ stdout = <<IF flags.pretty THEN PrettyLine(r.value) ELSE JsonLine(r.value)>>
                 /\ stderr = <<>> /\ exitCode = 0

\* C29, as amended: for every id that is not empty and does not begin with "--",
\* `runs list --event <id>` and `events runs <id>` are equivalent: with the same
\* global flags, environment and response both send GET /v1/events/<id>/runs and
\* end with the same stdout, stderr and exit code.
C29SameRunsOfEvent ==
    ((EventsRunsForm \/ RunsListForm) /\ OrdinaryId) =>
        /\ Exited => RunsOfEvent(TheId)
        /\ pc = "fetch" =>
              /\ Len(requests) = 1 /\ requests[1].method = "GET"
              /\ requests[1].url =
                    createClient([dev |-> flags.dev, port |-> flags.port], env).baseUrl
                        \o "/v1/events/" \o TheId \o "/runs"

C29Witness ==
    /\ RunsListForm /\ ~argv[3].eq /\ TheId = "evt-1" /\ flags.pretty
    /\ Exited /\ exitCode = 0 /\ RunsOfEvent("evt-1")
    /\ stdout[1].kind = "pretty" /\ Len(stdout[1].value.a) >= 1

\* What `events runs <id>` leaves behind for every id, the empty one included.
EventsRunsOf(id) ==
    IF id = ""
    THEN /\ requests = <<>> /\ stdout = <<>> /\ exitCode = 1 /\ files = NoFiles
         /\ stderr = <<printError(<<"Event ID is required">>, flags.pretty)>>
    ELSE RunsOfEvent(id)

\* C29, as stated: for every id `runs list --event <id>` ends as `events runs
\* <id>` does, with the same request, stdout, stderr and exit code.
C29EveryId ==
    (EventsRunsForm \/ RunsListForm) => (Exited => EventsRunsOf(TheId))

\* The operations that return a list, the `data` of the response, and the list
\* in the result.
ListOps == {"listEvents", "getEventRuns", "getRunJobs"}
Data == Get(JsonParse(response.body), "data")
Listed == IF call.op = "listEvents" THEN Get(Result, "events") ELSE Result

\* Element x of the list is the normalized element d of `data`: it has d's
\* identifier, in whichever spelling d has it, and d's name or status.
NormalizedFrom(x, d) ==
    CASE call.op = "listEvents" ->
            Get(x, "id") = Get(d, "id") /\ Get(x, "name") = Get(d, "name")
      [] call.op = "getEventRuns" ->
            /\ Get(x, "runId") \in {Get(d, "run_id"), Get(d, "runId")} \ {JUndef}
            /\ Get(x, "status") = Get(d, "status")
      [] call.op = "getRunJobs" ->
            /\ Get(x, "jobId") \in {Get(d, "job_id"), Get(d, "jobId")} \ {JUndef}
            /\ Get(x, "status") = Get(d, "status")

\* The count printEventList puts in its header: meta.total ?? events.length.
HeaderCount ==
    IF Nullish(Get(Get(Result, "meta"), "total")) THEN Len(Listed.a)
    ELSE Get(Get(Result, "meta"), "total").n

====
